---- MODULE Spec2Model ----
(***************************************************************************)
(* Model of the split-diff renderer of src/extensions/diff-renderer.ts.    *)
(*                                                                         *)
(* A string is a sequence of characters; a character is a one-element      *)
(* TLA+ string.  Characters that cannot be written in a TLA+ string are    *)
(* named: ESC is U+001B, TAB is U+0009, BEL is U+0007, WIDE is a           *)
(* double-width glyph, VBAR/HBAR/TEE/MARK are the box-drawing glyphs the   *)
(* renderer prints.  Offsets are 0-based as in the source: the character   *)
(* at source offset i is s[i + 1].                                         *)
(***************************************************************************)
EXTENDS Integers, Sequences, FiniteSets, TLC

VARIABLES
    fn,   \* pure-function harness: the function that was applied, or "none"
    arg,  \* pure-function harness: the inputs drawn in Init
    res,  \* pure-function harness: the value the function returned
    diff,          \* buildSplitRows: its argument, the diff text
    pc,            \* buildSplitRows: "start", "loop" (inside the for-of loop), "done"
    rawLines,      \* buildSplitRows: diff.split("\n"), the lines the loop iterates
    lineIdx,       \* buildSplitRows: number of lines the loop has consumed
    rows,          \* buildSplitRows: rows
    pendingLeft,   \* buildSplitRows: pendingLeft
    pendingRight,  \* buildSplitRows: pendingRight
    oldCursor,     \* buildSplitRows: oldCursor (NoNum when undefined)
    newCursor,     \* buildSplitRows: newCursor (NoNum when undefined)
    result,          \* edit tool: the tool result the host hands to renderResult
    hostTheme,       \* edit tool: the theme the host hands to renderResult
    view,            \* edit tool: what the last renderResult returned, <<>> before any
    split,           \* edit tool: the SplitDiffComponent of the view, <<>> when none
    cacheWidth,      \* SplitDiffComponent: cacheWidth, <<>> when undefined
    cacheLines,      \* SplitDiffComponent: cacheLines, <<>> when undefined
    highlightCache,  \* SplitDiffComponent: highlightCache, entries in insertion order
    built,           \* history: buildSplitRows was called for the diff of result
    constructed,     \* history: a SplitDiffComponent was constructed for the diff of result
    lastCall,        \* history: the last call on the view, with what it returned
    editToolCache    \* the module-level editToolCache, entries in insertion order

harnessVars == <<fn, arg, res>>
builderVars == <<diff, pc, rawLines, lineIdx, rows, pendingLeft, pendingRight, oldCursor, newCursor>>
editVars ==
    <<result, hostTheme, view, split, cacheWidth, cacheLines, highlightCache, built, constructed,
      lastCall, editToolCache>>
vars == <<harnessVars, builderVars, editVars>>

\* The variables of a part of the program that a specification does not exercise.
HarnessIdle == fn = "none" /\ arg = <<>> /\ res = <<>>
BuilderIdle ==
    /\ diff = <<>> /\ pc = "idle" /\ rawLines = <<>> /\ lineIdx = 0 /\ rows = <<>>
    /\ pendingLeft = <<>> /\ pendingRight = <<>> /\ oldCursor = -1 /\ newCursor = -1

EditIdle ==
    /\ result = <<>> /\ hostTheme = <<>> /\ view = <<>> /\ split = <<>> /\ cacheWidth = <<>>
    /\ cacheLines = <<>> /\ highlightCache = <<>> /\ built = FALSE /\ constructed = FALSE
    /\ lastCall = <<>> /\ editToolCache = <<>>

ESC == "ESC"
TAB == "TAB"
BEL == "BEL"
WIDE == "WIDE"

Min(a, b) == IF a < b THEN a ELSE b
Max(a, b) == IF a > b THEN a ELSE b

\* All strings over the alphabet A of length at most n.
Strs(A, n) == UNION {[1..k -> A] : k \in 0..n}

\* s.slice(from, to) with 0-based, already clamped offsets.
Slice(s, from, to) == SubSeq(s, from + 1, to)

NoResult == [none |-> TRUE]

(***************************************************************************)
(* computeInlineDiffSpans                                                  *)
(***************************************************************************)

\* while (start < minLen && leftLine[start] === rightLine[start]) start++;
RECURSIVE prefixLoop(_, _, _, _)
prefixLoop(leftLine, rightLine, start, minLen) ==
    IF start < minLen /\ leftLine[start + 1] = rightLine[start + 1]
    THEN prefixLoop(leftLine, rightLine, start + 1, minLen)
    ELSE start

\* A variant of the second loop that does not compare the characters.
RECURSIVE suffixLoopBlind(_, _, _, _, _)
suffixLoopBlind(leftLine, rightLine, start, leftEnd, rightEnd) ==
    IF leftEnd > start /\ rightEnd > start
    THEN suffixLoopBlind(leftLine, rightLine, start, leftEnd - 1, rightEnd - 1)
    ELSE [leftEnd |-> leftEnd, rightEnd |-> rightEnd]

\* while (leftEnd > start && rightEnd > start && leftLine[leftEnd - 1] === rightLine[rightEnd - 1])
RECURSIVE suffixLoop(_, _, _, _, _)
suffixLoop(leftLine, rightLine, start, leftEnd, rightEnd) ==
    IF leftEnd > start /\ rightEnd > start /\ leftLine[leftEnd] = rightLine[rightEnd]
    THEN suffixLoop(leftLine, rightLine, start, leftEnd - 1, rightEnd - 1)
    ELSE [leftEnd |-> leftEnd, rightEnd |-> rightEnd]

\* The bounds the two loops leave behind.
inlineDiffBounds(leftLine, rightLine) ==
    LET start == prefixLoop(leftLine, rightLine, 0, Min(Len(leftLine), Len(rightLine)))
        ends == suffixLoop(leftLine, rightLine, start, Len(leftLine), Len(rightLine))
    IN [start |-> start, leftEnd |-> ends.leftEnd, rightEnd |-> ends.rightEnd]

\* A naive variant: no shortcut for equal lines and no filtering of empty spans.
computeInlineDiffSpansUnfiltered(leftLine, rightLine) ==
    LET b == inlineDiffBounds(leftLine, rightLine)
    IN [left |-> <<[start |-> b.start, end |-> b.leftEnd]>>,
        right |-> <<[start |-> b.start, end |-> b.rightEnd]>>]

\* A variant whose suffix scan may run back into the common prefix.
computeInlineDiffSpansOverlap(leftLine, rightLine) ==
    IF leftLine = rightLine THEN [left |-> <<>>, right |-> <<>>]
    ELSE LET start == prefixLoop(leftLine, rightLine, 0, Min(Len(leftLine), Len(rightLine)))
             ends == suffixLoop(leftLine, rightLine, 0, Len(leftLine), Len(rightLine))
         IN [left |-> IF ends.leftEnd > start
                      THEN <<[start |-> start, end |-> ends.leftEnd]>> ELSE <<>>,
             right |-> IF ends.rightEnd > start
                       THEN <<[start |-> start, end |-> ends.rightEnd]>> ELSE <<>>]

computeInlineDiffSpans(leftLine, rightLine) ==
    IF leftLine = rightLine THEN [left |-> <<>>, right |-> <<>>]
    ELSE LET b == inlineDiffBounds(leftLine, rightLine)
         IN [left |-> IF b.leftEnd > b.start
                      THEN <<[start |-> b.start, end |-> b.leftEnd]>> ELSE <<>>,
             right |-> IF b.rightEnd > b.start
                       THEN <<[start |-> b.start, end |-> b.rightEnd]>> ELSE <<>>]

\* The constructor's loop body for one row: the entries it adds to inlineHighlights,
\* keyed by the side of the row ("left" / "right").
rowInlineHighlights(row) ==
    IF row.kind = "changed" /\ "left" \in DOMAIN row /\ "right" \in DOMAIN row
    THEN LET spans == computeInlineDiffSpans(row.left.line, row.right.line)
         IN [side \in {s \in {"left", "right"} : Len(spans[s]) > 0} |-> spans[side]]
    ELSE [side \in {} |-> <<>>]

(***************************************************************************)
(* Specification SpecSpans: computeInlineDiffSpans on bounded line pairs.  *)
(***************************************************************************)

MaxSpanLen == 3
SpanAlphabet == {"a", "b", "c"}
ExampleLeft == <<"a", "b", "c", "X", "d", "e", "f">>
ExampleRight == <<"a", "b", "c", "Y", "d", "e", "f">>
SpanLines == Strs(SpanAlphabet, MaxSpanLen) \cup {ExampleLeft, ExampleRight}

InitSpans ==
    /\ fn = "none"
    /\ arg \in [leftLine : SpanLines, rightLine : SpanLines]
    /\ res = NoResult
    /\ BuilderIdle
    /\ EditIdle

ComputeSpans ==
    /\ fn = "none"
    /\ fn' = "computeInlineDiffSpans"
    /\ res' = computeInlineDiffSpans(arg.leftLine, arg.rightLine)
    /\ UNCHANGED <<arg, builderVars, editVars>>

ConstructChangedRow ==
    /\ fn = "none"
    /\ fn' = "constructor"
    /\ res' = rowInlineHighlights([kind |-> "changed",
                                   left |-> [prefix |-> "-", lineNumber |-> <<"1">>, line |-> arg.leftLine],
                                   right |-> [prefix |-> "+", lineNumber |-> <<"1">>, line |-> arg.rightLine]])
    /\ UNCHANGED <<arg, builderVars, editVars>>

NextSpans == ComputeSpans \/ ConstructChangedRow

SpecSpans == InitSpans /\ [][NextSpans]_vars

\* Length of the longest common prefix, stated without the loop.
CommonPrefixLen(l, r) ==
    CHOOSE k \in 0..Min(Len(l), Len(r)) :
        /\ SubSeq(l, 1, k) = SubSeq(r, 1, k)
        /\ \A j \in (k + 1)..Min(Len(l), Len(r)) : SubSeq(l, 1, j) # SubSeq(r, 1, j)

\* Length of the longest common suffix that stays clear of the first p characters.
CommonSuffixLen(l, r, p) ==
    LET fits(k) == SubSeq(l, Len(l) - k + 1, Len(l)) = SubSeq(r, Len(r) - k + 1, Len(r))
        limit == Min(Len(l), Len(r)) - p
    IN CHOOSE k \in 0..limit : fits(k) /\ \A j \in (k + 1)..limit : ~fits(j)

SpanOrNone(start, end) == IF end > start THEN <<[start |-> start, end |-> end]>> ELSE <<>>

\* C6: identical left and right text gives no span on either side, and the
\* constructor records no inline highlight for such a changed row.
C6_IdenticalLinesNoSpans ==
    (fn # "none" /\ arg.leftLine = arg.rightLine) =>
        /\ fn = "computeInlineDiffSpans" => res = [left |-> <<>>, right |-> <<>>]
        /\ fn = "constructor" => DOMAIN res = {}

C6_Witness ==
    /\ fn = "constructor"
    /\ arg.leftLine = arg.rightLine
    /\ Len(arg.leftLine) = MaxSpanLen

\* C7: for differing lines the left span is [prefixLen, |l| - suffixLen) and the
\* right span is [prefixLen, |r| - suffixLen), each omitted when empty; the pair
\* ("abcXdef", "abcYdef") gives [3,4) on both sides.
C7_SpansArePrefixSuffixTrim ==
    (fn = "computeInlineDiffSpans" /\ arg.leftLine # arg.rightLine) =>
        LET p == CommonPrefixLen(arg.leftLine, arg.rightLine)
            q == CommonSuffixLen(arg.leftLine, arg.rightLine, p)
        IN /\ res.left = SpanOrNone(p, Len(arg.leftLine) - q)
           /\ res.right = SpanOrNone(p, Len(arg.rightLine) - q)
           /\ (arg.leftLine = ExampleLeft /\ arg.rightLine = ExampleRight) =>
                  /\ res.left = <<[start |-> 3, end |-> 4]>>
                  /\ res.right = <<[start |-> 3, end |-> 4]>>

C7_Witness ==
    /\ fn = "computeInlineDiffSpans"
    /\ arg.leftLine = ExampleLeft
    /\ arg.rightLine = ExampleRight
    /\ res.left = <<[start |-> 3, end |-> 4]>>

\* The bounds the two loops left, read from the spans returned: a side without a
\* span ends where the spans start.
SpanStart(spans) == IF Len(spans.left) > 0 THEN spans.left[1].start ELSE spans.right[1].start
SpanEnd(side, start) == IF Len(side) > 0 THEN side[1].end ELSE start

BoundsHold(l, r, start, leftEnd, rightEnd) ==
    /\ 0 <= start /\ start <= leftEnd /\ leftEnd <= Len(l)
    /\ start <= rightEnd /\ rightEnd <= Len(r)
    /\ Slice(l, 0, start) = Slice(r, 0, start)
    /\ Slice(l, leftEnd, Len(l)) = Slice(r, rightEnd, Len(r))
    /\ Slice(l, 0, start) \o Slice(r, start, rightEnd) \o Slice(l, leftEnd, Len(l)) = r

\* C30: for two differing lines l and r at least one span is returned, and the
\* bounds satisfy 0 <= start <= leftEnd <= |l|, start <= rightEnd <= |r|,
\* l[0..start) = r[0..start) and l[leftEnd..) = r[rightEnd..), so that replacing
\* l[start..leftEnd) by r[start..rightEnd) in l yields r.
C30_BoundsRebuildRight ==
    (fn = "computeInlineDiffSpans" /\ arg.leftLine # arg.rightLine) =>
        /\ Len(res.left) > 0 \/ Len(res.right) > 0
        /\ Len(res.left) <= 1 /\ Len(res.right) <= 1
        /\ (Len(res.left) > 0 /\ Len(res.right) > 0) => res.left[1].start = res.right[1].start
        /\ BoundsHold(arg.leftLine, arg.rightLine, SpanStart(res),
                      SpanEnd(res.left, SpanStart(res)), SpanEnd(res.right, SpanStart(res)))

\* Lines of different lengths with a common prefix and a common suffix: the right
\* line is the left line without its middle.
C30_Witness ==
    /\ fn = "computeInlineDiffSpans"
    /\ arg.leftLine = <<"a", "b", "c">>
    /\ arg.rightLine = <<"a", "c">>
    /\ res = [left |-> <<[start |-> 1, end |-> 2]>>, right |-> <<>>]

(***************************************************************************)
(* Character classes and small string helpers                              *)
(***************************************************************************)

LF == "LF"
CR == "CR"
NoNum == -1   \* a line number or cursor that is undefined

Digits == {"0", "1", "2", "3", "4", "5", "6", "7", "8", "9"}
IsDigit(c) == c \in Digits
\* \s of a JavaScript regular expression, within the characters of the model.
IsSpace(c) == c \in {" ", TAB, CR, LF}
\* The characters "." does not match.
IsLineTerminator(c) == c \in {LF, CR}
\* [\u0000-\u0008\u000B\u000C\u000E-\u001F\u007F], \r and \n.
IsControl(c) == c \in {BEL, ESC, CR, LF}

DigitValue(c) ==
    CASE c = "0" -> 0 [] c = "1" -> 1 [] c = "2" -> 2 [] c = "3" -> 3 [] c = "4" -> 4
      [] c = "5" -> 5 [] c = "6" -> 6 [] c = "7" -> 7 [] c = "8" -> 8 [] c = "9" -> 9

DigitChar(d) == <<"0", "1", "2", "3", "4", "5", "6", "7", "8", "9">>[d + 1]

\* String(n) for a non-negative integer.
RECURSIVE numberToString(_)
numberToString(n) ==
    IF n < 10 THEN <<DigitChar(n)>> ELSE Append(numberToString(n \div 10), DigitChar(n % 10))

\* Number.parseInt(digits, 10) for a non-empty run of digits.
RECURSIVE digitsToNumber(_)
digitsToNumber(ds) ==
    IF Len(ds) = 0 THEN 0
    ELSE 10 * digitsToNumber(SubSeq(ds, 1, Len(ds) - 1)) + DigitValue(ds[Len(ds)])

\* Length of the longest run of characters satisfying P that starts at s[from].
RunLength(s, from, P(_)) ==
    CHOOSE k \in 0..(Len(s) - from + 1) :
        /\ \A i \in from..(from + k - 1) : P(s[i])
        /\ (from + k <= Len(s)) => ~P(s[from + k])

\* Concatenation of f(s[lo]), ..., f(s[hi]).
RECURSIVE concatMap(_, _, _, _)
concatMap(f(_), s, lo, hi) ==
    IF lo > hi THEN <<>>
    ELSE IF lo = hi THEN f(s[lo])
    ELSE LET mid == (lo + hi) \div 2
         IN concatMap(f, s, lo, mid) \o concatMap(f, s, mid + 1, hi)

\* The state after running step(state, i) for i = lo, ..., hi in order.
RECURSIVE iterate(_, _, _, _)
iterate(step(_, _), st, lo, hi) ==
    IF lo > hi THEN st
    ELSE IF lo = hi THEN step(st, lo)
    ELSE LET mid == (lo + hi) \div 2
             first == iterate(step, st, lo, mid)
         IN IF DOMAIN first = DOMAIN first THEN iterate(step, first, mid + 1, hi) ELSE first

sanitizeSingleLineText(value) == SelectSeq(value, LAMBDA c : ~IsControl(c))

trim(value) ==
    LET lead == RunLength(value, 1, IsSpace)
        last == {i \in 1..Len(value) : ~IsSpace(value[i])}
    IN IF last = {} THEN <<>>
       ELSE SubSeq(value, lead + 1, CHOOSE i \in last : \A j \in last : j <= i)

\* The positions of the line feeds in value[lo..hi], in order.
RECURSIVE lineFeedsIn(_, _, _)
lineFeedsIn(value, lo, hi) ==
    IF \A i \in lo..hi : value[i] # LF THEN <<>>
    ELSE IF lo = hi THEN <<lo>>
    ELSE LET mid == (lo + hi) \div 2
         IN lineFeedsIn(value, lo, mid) \o lineFeedsIn(value, mid + 1, hi)

\* value.split("\n"): the text between the line feeds, in order.
splitLines(value) ==
    LET feeds == lineFeedsIn(value, 1, Len(value))
        n == Len(feeds)
    IN [k \in 1..(n + 1) |->
           SubSeq(value, IF k = 1 THEN 1 ELSE feeds[k - 1] + 1,
                         IF k = n + 1 THEN Len(value) ELSE feeds[k] - 1)]

\* lines.join("\n")
RECURSIVE joinLines(_)
joinLines(ls) ==
    IF Len(ls) = 0 THEN <<>>
    ELSE IF Len(ls) = 1 THEN ls[1]
    ELSE ls[1] \o <<LF>> \o joinLines(Tail(ls))

(***************************************************************************)
(* Diff parser: parseLineNumber, makeDiffLine, parseDiffLine,              *)
(* buildSplitRows                                                          *)
(***************************************************************************)

parseLineNumber(value) ==
    LET trimmed == trim(value)
        digits == SubSeq(trimmed, 1, RunLength(trimmed, 1, IsDigit))
    IN IF Len(trimmed) = 0 THEN NoNum
       ELSE IF Len(digits) = 0 THEN NoNum   \* parseInt gives NaN
       ELSE digitsToNumber(digits)

makeDiffLine(prefix, lineNumber, line) ==
    [prefix |-> prefix,
     lineNumber |-> IF lineNumber = NoNum THEN <<>> ELSE numberToString(lineNumber),
     line |-> line]

NoMatch == [matched |-> FALSE]

expandTab(c) == IF c = TAB THEN <<" ", " ", " ", " ">> ELSE <<c>>

\* rawLine.match(/^([+\- ])(\s*\d*)\s(.*)$/): group 2 takes a spaces and b digits,
\* as many spaces as a match allows and then as many digits as a match allows.
parseDiffLine(rawLine) ==
    IF Len(rawLine) = 0 \/ rawLine[1] \notin {"+", "-", " "} THEN NoMatch
    ELSE LET rest == Tail(rawLine)
             spaces == RunLength(rest, 1, IsSpace)
             matches(a, b) ==
                 /\ a + b + 1 <= Len(rest)
                 /\ \A i \in (a + 1)..(a + b) : IsDigit(rest[i])
                 /\ IsSpace(rest[a + b + 1])
                 /\ \A i \in (a + b + 2)..Len(rest) : ~IsLineTerminator(rest[i])
             cands == {c \in (0..spaces) \X (0..Len(rest)) :
                          /\ c[2] <= RunLength(rest, c[1] + 1, IsDigit)
                          /\ matches(c[1], c[2])}
         IN IF cands = {} THEN NoMatch
            ELSE LET best == CHOOSE c \in cands : \A o \in cands :
                                 o[1] < c[1] \/ (o[1] = c[1] /\ o[2] <= c[2])
                     lineNumber == SubSeq(rest, 1, best[1] + best[2])
                     line == SubSeq(rest, best[1] + best[2] + 2, Len(rest))
                     cleanLine == sanitizeSingleLineText(line)
                 IN [matched |-> TRUE,
                     prefix |-> rawLine[1],
                     lineNumber |-> sanitizeSingleLineText(lineNumber),
                     line |-> concatMap(expandTab, cleanLine, 1, Len(cleanLine))]

\* The state of buildSplitRows between two iterations of its loop.
BuilderState(r, pl, pr, oc, nc) ==
    [rows |-> r, pendingLeft |-> pl, pendingRight |-> pr, oldCursor |-> oc, newCursor |-> nc]

EmptyBuilder == BuilderState(<<>>, <<>>, <<>>, NoNum, NoNum)

\* A variant that makes a "changed" row of whatever it shifted from either queue.
RECURSIVE flushPendingLoose(_)
flushPendingLoose(st) ==
    IF Len(st.pendingLeft) > 0 \/ Len(st.pendingRight) > 0
    THEN LET hasLeft == Len(st.pendingLeft) > 0
             hasRight == Len(st.pendingRight) > 0
             row == IF hasLeft /\ hasRight
                    THEN [kind |-> "changed", left |-> Head(st.pendingLeft), right |-> Head(st.pendingRight)]
                    ELSE IF hasLeft THEN [kind |-> "changed", left |-> Head(st.pendingLeft)]
                    ELSE [kind |-> "changed", right |-> Head(st.pendingRight)]
         IN flushPendingLoose([st EXCEPT
                !.rows = Append(@, row),
                !.pendingLeft = IF hasLeft THEN Tail(@) ELSE @,
                !.pendingRight = IF hasRight THEN Tail(@) ELSE @])
    ELSE st

\* A variant that empties the removed queue before it looks at the added queue.
RECURSIVE flushPendingUnpaired(_)
flushPendingUnpaired(st) ==
    IF Len(st.pendingLeft) > 0
    THEN flushPendingUnpaired([st EXCEPT
            !.rows = Append(@, [kind |-> "removed", left |-> Head(st.pendingLeft)]),
            !.pendingLeft = Tail(@)])
    ELSE IF Len(st.pendingRight) > 0
    THEN flushPendingUnpaired([st EXCEPT
            !.rows = Append(@, [kind |-> "added", right |-> Head(st.pendingRight)]),
            !.pendingRight = Tail(@)])
    ELSE st

\* flushPending: while either queue is non-empty, shift one line from each.
RECURSIVE flushPending(_)
flushPending(st) ==
    IF Len(st.pendingLeft) > 0 \/ Len(st.pendingRight) > 0
    THEN LET hasLeft == Len(st.pendingLeft) > 0
             hasRight == Len(st.pendingRight) > 0
             row == IF hasLeft /\ hasRight
                    THEN [kind |-> "changed", left |-> Head(st.pendingLeft), right |-> Head(st.pendingRight)]
                    ELSE IF hasLeft THEN [kind |-> "removed", left |-> Head(st.pendingLeft)]
                    ELSE [kind |-> "added", right |-> Head(st.pendingRight)]
         IN flushPending([st EXCEPT
                !.rows = Append(@, row),
                !.pendingLeft = IF hasLeft THEN Tail(@) ELSE @,
                !.pendingRight = IF hasRight THEN Tail(@) ELSE @])
    ELSE st

\* A variant that gives the right side of a context row the number of its left side.
contextLineSameNumber(st, parsed, parsedNum) ==
    LET flushed == flushPending(st)
        oldNum == IF parsedNum # NoNum THEN parsedNum ELSE flushed.oldCursor
    IN [flushed EXCEPT
           !.oldCursor = IF oldNum # NoNum THEN oldNum + 1 ELSE @,
           !.newCursor = IF oldNum # NoNum THEN oldNum + 1 ELSE @,
           !.rows = Append(@, [kind |-> "context",
                               left |-> makeDiffLine(" ", oldNum, parsed.line),
                               right |-> makeDiffLine(" ", oldNum, parsed.line)])]

\* The part of the loop body that handles a parsed context line.
contextLine(st, parsed, parsedNum) ==
    LET flushed == flushPending(st)
        oldNum == IF parsedNum # NoNum THEN parsedNum ELSE flushed.oldCursor
        newNum == IF flushed.newCursor # NoNum THEN flushed.newCursor ELSE oldNum
    IN [flushed EXCEPT
           !.oldCursor = IF oldNum # NoNum THEN oldNum + 1 ELSE @,
           !.newCursor = IF newNum # NoNum THEN newNum + 1 ELSE @,
           !.rows = Append(@, [kind |-> "context",
                               left |-> makeDiffLine(" ", oldNum, parsed.line),
                               right |-> makeDiffLine(" ", newNum, parsed.line)])]

\* A variant of the loop body that emits the context row without flushing first.
loopBodyLateFlush(st, rawLine) ==
    LET parsed == parseDiffLine(rawLine)
        parsedNum == IF parsed.matched THEN parseLineNumber(parsed.lineNumber) ELSE NoNum
    IN IF ~parsed.matched THEN st
       ELSE IF parsed.prefix = "-"
       THEN LET oldNum == IF parsedNum # NoNum THEN parsedNum ELSE st.oldCursor
            IN [st EXCEPT !.oldCursor = IF oldNum # NoNum THEN oldNum + 1 ELSE @,
                          !.pendingLeft = Append(@, makeDiffLine("-", oldNum, parsed.line))]
       ELSE IF parsed.prefix = "+"
       THEN LET newNum == IF parsedNum # NoNum THEN parsedNum ELSE st.newCursor
            IN [st EXCEPT !.newCursor = IF newNum # NoNum THEN newNum + 1 ELSE @,
                          !.pendingRight = Append(@, makeDiffLine("+", newNum, parsed.line))]
       ELSE LET oldNum == IF parsedNum # NoNum THEN parsedNum ELSE st.oldCursor
                newNum == IF st.newCursor # NoNum THEN st.newCursor ELSE oldNum
            IN [st EXCEPT
                   !.oldCursor = IF oldNum # NoNum THEN oldNum + 1 ELSE @,
                   !.newCursor = IF newNum # NoNum THEN newNum + 1 ELSE @,
                   !.rows = Append(@, [kind |-> "context",
                                       left |-> makeDiffLine(" ", oldNum, parsed.line),
                                       right |-> makeDiffLine(" ", newNum, parsed.line)])]

\* A variant that numbers a removed or added line from the cursor when there is one,
\* and from its parsed number otherwise.
handleParsedCursorFirst(st, parsed, parsedNum) ==
    IF ~parsed.matched THEN st
    ELSE IF parsed.prefix = "-"
    THEN LET oldNum == IF st.oldCursor # NoNum THEN st.oldCursor ELSE parsedNum
         IN [st EXCEPT !.oldCursor = IF oldNum # NoNum THEN oldNum + 1 ELSE @,
                       !.pendingLeft = Append(@, makeDiffLine("-", oldNum, parsed.line))]
    ELSE IF parsed.prefix = "+"
    THEN LET newNum == IF st.newCursor # NoNum THEN st.newCursor ELSE parsedNum
         IN [st EXCEPT !.newCursor = IF newNum # NoNum THEN newNum + 1 ELSE @,
                       !.pendingRight = Append(@, makeDiffLine("+", newNum, parsed.line))]
    ELSE contextLine(st, parsed, parsedNum)

\* The loop body after the match, given the parsed line and its line number.
handleParsed(st, parsed, parsedNum) ==
    IF ~parsed.matched THEN st
    ELSE IF parsed.prefix = "-"
    THEN LET oldNum == IF parsedNum # NoNum THEN parsedNum ELSE st.oldCursor
         IN [st EXCEPT !.oldCursor = IF oldNum # NoNum THEN oldNum + 1 ELSE @,
                       !.pendingLeft = Append(@, makeDiffLine("-", oldNum, parsed.line))]
    ELSE IF parsed.prefix = "+"
    THEN LET newNum == IF parsedNum # NoNum THEN parsedNum ELSE st.newCursor
         IN [st EXCEPT !.newCursor = IF newNum # NoNum THEN newNum + 1 ELSE @,
                       !.pendingRight = Append(@, makeDiffLine("+", newNum, parsed.line))]
    ELSE contextLine(st, parsed, parsedNum)

\* The loop body after parseDiffLine, given what it returned.
handleMatch(st, parsed) ==
    handleParsed(st, parsed,
                 IF parsed.matched THEN parseLineNumber(parsed.lineNumber) ELSE NoNum)

\* A variant that flushes the pending lines when it skips a line.
loopBodyFlushOnSkip(st, rawLine) ==
    IF parseDiffLine(rawLine).matched THEN handleMatch(st, parseDiffLine(rawLine))
    ELSE flushPending(st)

\* One iteration of "for (const rawLine of diff.split("\n"))".
loopBody(st, rawLine) == handleMatch(st, parseDiffLine(rawLine))

\* The loop over the lines, then the final flush.
buildRowsOf(ls) ==
    flushPending(iterate(LAMBDA st, i : loopBody(st, ls[i]), EmptyBuilder, 1, Len(ls))).rows

\* buildSplitRows as a function of the diff text.
buildSplitRows(text) == buildRowsOf(splitLines(text))

(***************************************************************************)
(* Specification SpecRows: buildSplitRows, one loop iteration per step.    *)
(***************************************************************************)

MaxDiffLines == 4

RemovedFoo == <<"-", " ", "1", "0", " ", "f", "o", "o">>   \* "- 10 foo"
AddedBar == <<"+", " ", "1", "0", " ", "b", "a", "r">>     \* "+ 10 bar"
ContextBaz == <<" ", " ", "1", "1", " ", "b", "a", "z">>   \* "  11 baz"
RemovedBare == <<"-", " ", "x">>                           \* "- x", no line number
AddedBare == <<"+", " ", "y">>                             \* "+ y", no line number
ContextBare == <<" ", " ", "z">>                           \* "  z", no line number
FileHeader == <<"-", "-", "-", " ", "a">>                  \* "--- a"
EmptyLine == <<>>

RawLineSet ==
    {RemovedFoo, AddedBar, ContextBaz, RemovedBare, AddedBare, ContextBare, FileHeader, EmptyLine}

\* "- 10 foo\n+ 10 bar\n  11 baz\n"
ExampleDiff == joinLines(<<RemovedFoo, AddedBar, ContextBaz, EmptyLine>>)

DiffTexts == {joinLines(ls) : ls \in UNION {[1..k -> RawLineSet] : k \in 1..MaxDiffLines}}

InitRows ==
    /\ diff \in DiffTexts
    /\ pc = "start"
    /\ rawLines = <<>>
    /\ lineIdx = 0
    /\ rows = <<>>
    /\ pendingLeft = <<>>
    /\ pendingRight = <<>>
    /\ oldCursor = NoNum
    /\ newCursor = NoNum
    /\ HarnessIdle
    /\ EditIdle

SetBuilder(st) ==
    /\ rows' = st.rows
    /\ pendingLeft' = st.pendingLeft
    /\ pendingRight' = st.pendingRight
    /\ oldCursor' = st.oldCursor
    /\ newCursor' = st.newCursor

CurrentBuilder == BuilderState(rows, pendingLeft, pendingRight, oldCursor, newCursor)

\* Entry of buildSplitRows: the declarations and diff.split("\n").
BuildStart ==
    /\ pc = "start"
    /\ pc' = "loop"
    /\ rawLines' = splitLines(diff)
    /\ lineIdx' = 0
    /\ SetBuilder(EmptyBuilder)
    /\ UNCHANGED <<diff, harnessVars, editVars>>

\* One iteration of the for-of loop.
LoopStep ==
    /\ pc = "loop"
    /\ lineIdx < Len(rawLines)
    /\ lineIdx' = lineIdx + 1
    /\ SetBuilder(loopBody(CurrentBuilder, rawLines[lineIdx + 1]))
    /\ UNCHANGED <<diff, pc, rawLines, harnessVars, editVars>>

\* The flushPending() after the loop, and the return.
FinalFlush ==
    /\ pc = "loop"
    /\ lineIdx = Len(rawLines)
    /\ pc' = "done"
    /\ SetBuilder(flushPending(CurrentBuilder))
    /\ UNCHANGED <<diff, rawLines, lineIdx, harnessVars, editVars>>

NextRows == BuildStart \/ LoopStep \/ FinalFlush

SpecRows == InitRows /\ [][NextRows]_vars

\* The rows a positional pairing of two queues gives.
ZipRows(pl, pr) ==
    [i \in 1..Max(Len(pl), Len(pr)) |->
        IF i <= Len(pl) /\ i <= Len(pr) THEN [kind |-> "changed", left |-> pl[i], right |-> pr[i]]
        ELSE IF i <= Len(pl) THEN [kind |-> "removed", left |-> pl[i]]
        ELSE [kind |-> "added", right |-> pr[i]]]

ExampleRows ==
    <<[kind |-> "changed",
       left |-> [prefix |-> "-", lineNumber |-> <<"1", "0">>, line |-> <<"f", "o", "o">>],
       right |-> [prefix |-> "+", lineNumber |-> <<"1", "0">>, line |-> <<"b", "a", "r">>]],
      [kind |-> "context",
       left |-> [prefix |-> " ", lineNumber |-> <<"1", "1">>, line |-> <<"b", "a", "z">>],
       right |-> [prefix |-> " ", lineNumber |-> <<"1", "1">>, line |-> <<"b", "a", "z">>]]>>

C2_ExampleResult == (pc = "done" /\ diff = ExampleDiff) => rows = ExampleRows

C2_PairingStep ==
    LET parsed == parseDiffLine(rawLines[lineIdx'])
        isContext == parsed.matched /\ parsed.prefix = " "
    IN /\ (pc = "loop" /\ lineIdx' = lineIdx + 1 /\ isContext) =>
              /\ Len(rows') = Len(rows) + Max(Len(pendingLeft), Len(pendingRight)) + 1
              /\ SubSeq(rows', 1, Len(rows') - 1) = rows \o ZipRows(pendingLeft, pendingRight)
              /\ rows'[Len(rows')].kind = "context"
              /\ pendingLeft' = <<>> /\ pendingRight' = <<>>
       /\ (pc = "loop" /\ lineIdx' = lineIdx + 1 /\ ~isContext) => rows' = rows
       /\ (pc = "loop" /\ pc' = "done") =>
              /\ rows' = rows \o ZipRows(pendingLeft, pendingRight)
              /\ pendingLeft' = <<>> /\ pendingRight' = <<>>

\* C2: a run of '-' and '+' lines is paired positionally when a context line or the
\* end of the input is reached (i-th removed with i-th added as "changed", surplus
\* removed as "removed", surplus added as "added"), and no row is made before that;
\* "- 10 foo\n+ 10 bar\n  11 baz\n" gives one changed row and one context row.
C2_PositionalPairing == [] C2_ExampleResult /\ [][C2_PairingStep]_vars

C2_Witness == pc = "done" /\ diff = ExampleDiff /\ rows = ExampleRows

RowShapeOk(row) ==
    CASE row.kind = "changed" -> DOMAIN row = {"kind", "left", "right"}
      [] row.kind = "added" -> DOMAIN row = {"kind", "right"}
      [] row.kind = "removed" -> DOMAIN row = {"kind", "left"}
      [] row.kind = "context" -> DOMAIN row = {"kind", "left", "right"} /\ row.left.line = row.right.line
      [] OTHER -> FALSE

\* C3: every row buildSplitRows has produced has the shape of its kind: changed has
\* both sides, added only right, removed only left, context both with the same text.
C3_RowShape == \A i \in 1..Len(rows) : RowShapeOk(rows[i])

C3_Witness ==
    /\ pc = "done"
    /\ \A k \in {"changed", "context"} : \E i \in 1..Len(rows) : rows[i].kind = k
    /\ \E i \in 1..Len(rows) : rows[i].kind \in {"added", "removed"}

\* The parsed lines of the input, in input order.
ParsedLines(ls) ==
    LET all == [i \in 1..Len(ls) |-> parseDiffLine(ls[i])]
    IN SelectSeq(all, LAMBDA p : p.matched)

TextsOf(ps, prefixes) ==
    LET kept == SelectSeq(ps, LAMBDA p : p.prefix \in prefixes)
    IN [i \in 1..Len(kept) |-> kept[i].line]

SideTexts(rs, side) ==
    LET kept == SelectSeq(rs, LAMBDA r : side \in DOMAIN r)
    IN [i \in 1..Len(kept) |-> kept[i][side].line]

\* C4: the left sides of the returned rows are the parsed '-' and context lines in
\* input order, the right sides the parsed '+' and context lines in input order.
C4_RowOrder ==
    pc = "done" =>
        /\ SideTexts(rows, "left") = TextsOf(ParsedLines(rawLines), {"-", " "})
        /\ SideTexts(rows, "right") = TextsOf(ParsedLines(rawLines), {"+", " "})

C4_Witness ==
    /\ pc = "done"
    /\ Len(rows) >= 3
    /\ \E i \in 1..(Len(rows) - 1) : rows[i].kind = "context" /\ rows[i + 1].kind # "context"
    /\ \E i \in 1..(Len(rows) - 1) : rows[i].kind # "context" /\ rows[i + 1].kind = "context"

\* The line has the shape: a prefix, then spaces and digits (the optional line
\* number), then one white-space character, then content up to the end of the line.
HasLineShape(l) ==
    /\ Len(l) >= 2
    /\ l[1] \in {"+", "-", " "}
    /\ \E a \in 0..Len(l), b \in 0..Len(l) :
           /\ 1 + a + b + 1 <= Len(l)
           /\ \A i \in 2..(1 + a) : IsSpace(l[i])
           /\ \A i \in (2 + a)..(1 + a + b) : IsDigit(l[i])
           /\ IsSpace(l[2 + a + b])
           /\ \A i \in (3 + a + b)..Len(l) : ~IsLineTerminator(l[i])

\* The loop has just handled rawLines[lineIdx'].
LineHandled == pc = "loop" /\ lineIdx' = lineIdx + 1

C14_SkipStep ==
    (LineHandled /\ ~HasLineShape(rawLines[lineIdx'])) =>
        UNCHANGED <<rows, pendingLeft, pendingRight, oldCursor, newCursor>>

NumberText(n) == IF n = NoNum THEN <<>> ELSE numberToString(n)

\* The number of a removed or added line: its parsed number, else the cursor.
NumberOrCursor(parsedNum, cursor) == IF parsedNum # NoNum THEN parsedNum ELSE cursor

\* The cursor after a line that was given the number n.
CursorAfter(n, cursor) == IF n # NoNum THEN n + 1 ELSE cursor

\* What a '-' or '+' line does to its side: queue, cursor and number given.
SideStep(parsed, n, queue, queueAfter, cursor, cursorAfter) ==
    /\ queueAfter = Append(queue, [prefix |-> parsed.prefix, lineNumber |-> NumberText(n),
                                   line |-> parsed.line])
    /\ cursorAfter = CursorAfter(n, cursor)
    /\ (parsed.lineNumber = <<>> /\ cursor # NoNum) =>
           (queueAfter[Len(queueAfter)].lineNumber = numberToString(cursor)
            /\ cursorAfter = cursor + 1)
    /\ (parsed.lineNumber = <<>> /\ cursor = NoNum) =>
           (queueAfter[Len(queueAfter)].lineNumber = <<>> /\ cursorAfter = NoNum)

C19_ParsedStep(parsed) ==
    /\ (parsed.matched /\ parsed.prefix = "-") =>
           /\ SideStep(parsed, NumberOrCursor(parseLineNumber(parsed.lineNumber), oldCursor),
                       pendingLeft, pendingLeft', oldCursor, oldCursor')
           /\ UNCHANGED <<pendingRight, newCursor, rows>>
    /\ (parsed.matched /\ parsed.prefix = "+") =>
           /\ SideStep(parsed, NumberOrCursor(parseLineNumber(parsed.lineNumber), newCursor),
                       pendingRight, pendingRight', newCursor, newCursor')
           /\ UNCHANGED <<pendingLeft, oldCursor, rows>>

C19_Step == LineHandled => C19_ParsedStep(parseDiffLine(rawLines[lineIdx']))

\* C19: a '-' line gets its parsed number, or else the old-side cursor; a '+' line
\* its parsed number, or else the new-side cursor; after a line with a known number
\* the cursor of its side is that number + 1, so lines of one side without numbers
\* count up by one; with no parsed number and no cursor the line number is empty.
C19_LineNumbersFromCursor == [][C19_Step]_vars

\* Two removed lines without numbers follow a numbered one and were given the next
\* two numbers, and an added line with no number and no cursor has an empty one.
C19_Witness ==
    /\ Len(pendingLeft) = 3
    /\ pendingLeft[1].lineNumber = <<"1", "0">>
    /\ pendingLeft[2].lineNumber = <<"1", "1">>
    /\ pendingLeft[3].lineNumber = <<"1", "2">>
    /\ oldCursor = 13
    /\ Len(pendingRight) = 1
    /\ pendingRight[1].lineNumber = <<>>
    /\ newCursor = NoNum

\* What a context line does, given the numbers of its two sides.
ContextStep(parsed, leftNum, rightNum) ==
    /\ rows' = rows \o ZipRows(pendingLeft, pendingRight)
                 \o <<[kind |-> "context",
                       left |-> [prefix |-> " ", lineNumber |-> NumberText(leftNum),
                                 line |-> parsed.line],
                       right |-> [prefix |-> " ", lineNumber |-> NumberText(rightNum),
                                  line |-> parsed.line]]>>
    /\ pendingLeft' = <<>>
    /\ pendingRight' = <<>>
    /\ oldCursor' = CursorAfter(leftNum, oldCursor)
    /\ newCursor' = CursorAfter(rightNum, newCursor)

ContextNumbers(parsed, leftNum) ==
    ContextStep(parsed, leftNum, IF newCursor # NoNum THEN newCursor ELSE leftNum)

C20_ParsedStep(parsed) ==
    (parsed.matched /\ parsed.prefix = " ") =>
        ContextNumbers(parsed, NumberOrCursor(parseLineNumber(parsed.lineNumber), oldCursor))

C20_Step == LineHandled => C20_ParsedStep(parseDiffLine(rawLines[lineIdx']))

\* C20: a context line first turns all pending removed and added lines into rows and
\* then adds exactly one context row; its left number is the parsed number or else
\* the old cursor, its right number the new cursor or else the left number, and each
\* cursor is then one more than the number of its side.
C20_ContextFlushesThenEmits == [][C20_Step]_vars

\* A context line without a number followed an added line with one: pending lines
\* became a row first, and the two sides of the context row have different numbers.
C20_Witness ==
    /\ pc = "loop"
    /\ Len(rows) >= 2
    /\ rows[Len(rows)].kind = "context"
    /\ rows[Len(rows) - 1].kind = "added"
    /\ rows[Len(rows)].left.lineNumber = <<>>
    /\ rows[Len(rows)].right.lineNumber = <<"1", "1">>
    /\ oldCursor = NoNum
    /\ newCursor = 12

(***************************************************************************)
(* Escape-sequence utilities: stripAnsi, padRight, fitToWidth,             *)
(* applyBackgroundToVisibleRange                                           *)
(***************************************************************************)

Letters ==
    {"a", "b", "c", "d", "e", "f", "g", "h", "i", "j", "k", "l", "m", "n", "o", "p", "q",
     "r", "s", "t", "u", "v", "w", "x", "y", "z",
     "A", "B", "C", "D", "E", "F", "G", "H", "I", "J", "K", "L", "M", "N", "O", "P", "Q",
     "R", "S", "T", "U", "V", "W", "X", "Y", "Z"}

\* The three character classes of ANSI_ESCAPE_SEQUENCE_PATTERN: [0-?], [ -/], [@-~].
IsCsiParameter(c) == c \in Digits \cup {":", ";", "<", "=", ">", "?"}
IsCsiIntermediate(c) ==
    c \in {" ", "!", "#", "$", "%", "&", "'", "(", ")", "*", "+", ",", "-", ".", "/"}
IsCsiFinal(c) == c \in Letters \cup {"@", "[", "]", "^", "_", "{", "|", "}", "~"}

\* Index of the last character of the match of /\x1B\[[0-?]*[ -/]*[@-~]/ that starts
\* at value[i], or 0 when the pattern does not match there.
csiMatchEnd(value, i) ==
    IF value[i] = ESC /\ i + 1 <= Len(value) /\ value[i + 1] = "["
    THEN LET params == RunLength(value, i + 2, IsCsiParameter)
             inter == RunLength(value, i + 2 + params, IsCsiIntermediate)
             last == i + 2 + params + inter
         IN IF last <= Len(value) /\ IsCsiFinal(value[last]) THEN last ELSE 0
    ELSE 0

\* value.replace(ANSI_ESCAPE_SEQUENCE_PATTERN, ""), scanning left to right.
stripAnsiStep(st, i) ==
    IF i < st.next THEN st
    ELSE LET last == csiMatchEnd(st.text, i)
         IN IF last > 0 THEN [st EXCEPT !.next = last + 1]
            ELSE [st EXCEPT !.out = Append(@, st.text[i]), !.next = i + 1]

stripAnsi(value) ==
    iterate(stripAnsiStep, [text |-> value, out |-> <<>>, next |-> 1], 1, Len(value)).out

\* Columns one character takes on the terminal.
charWidth(c) == IF c = WIDE THEN 2 ELSE IF IsControl(c) THEN 0 ELSE 1

RECURSIVE sumWidths(_, _, _)
sumWidths(s, lo, hi) ==
    IF lo > hi THEN 0
    ELSE IF lo = hi THEN charWidth(s[lo])
    ELSE LET mid == (lo + hi) \div 2 IN sumWidths(s, lo, mid) + sumWidths(s, mid + 1, hi)

\* visibleWidth of @mariozechner/pi-tui, on text without escape sequences.
visibleWidth(s) == sumWidths(s, 1, Len(s))

\* c.repeat(n)
repeat(c, n) == [i \in 1..n |-> c] \o <<>>

\* A variant that measures the raw length instead of the visible width.
padRightRawLength(value, width) ==
    IF Len(value) >= width THEN value ELSE value \o repeat(" ", width - Len(value))

padRight(value, width) ==
    LET visual == visibleWidth(stripAnsi(value))
    IN IF visual >= width THEN value ELSE value \o repeat(" ", width - visual)

\* truncateToWidth of @mariozechner/pi-tui: the longest prefix of whole escape
\* sequences and whole characters whose visible width does not exceed width.
truncateStep(st, i) ==
    IF i < st.next \/ st.stopped THEN st
    ELSE LET last == csiMatchEnd(st.text, i)
         IN IF last > 0
            THEN [st EXCEPT !.out = @ \o SubSeq(st.text, i, last), !.next = last + 1]
            ELSE IF st.used + charWidth(st.text[i]) > st.width
            THEN [st EXCEPT !.stopped = TRUE]
            ELSE [st EXCEPT !.out = Append(@, st.text[i]), !.next = i + 1,
                            !.used = @ + charWidth(st.text[i])]

truncateToWidth(value, width) ==
    IF visibleWidth(stripAnsi(value)) <= width THEN value
    ELSE iterate(truncateStep,
                 [text |-> value, width |-> width, out |-> <<>>, next |-> 1, used |-> 0,
                  stopped |-> FALSE],
                 1, Len(value)).out

\* A variant that truncates and forgets to pad.
fitToWidthUnpadded(value, width) == truncateToWidth(value, width)

fitToWidth(value, width) == padRight(truncateToWidth(value, width), width)

\* ansiText.indexOf(c, from) as a 1-based index, 0 when there is none.
indexOfChar(s, c, from) ==
    LET hits == {j \in from..Len(s) : s[j] = c}
    IN IF hits = {} THEN 0 ELSE CHOOSE j \in hits : \A k \in hits : j <= k

\* One iteration of the while loop of applyBackgroundToVisibleRange; st.index is the
\* 1-based position of the next character to read.
applyBackgroundStep(st, i) ==
    IF i < st.index THEN st
    ELSE LET sequenceEnd == IF st.text[i] = ESC THEN indexOfChar(st.text, "m", i) ELSE 0
         IN IF sequenceEnd > 0
            THEN [st EXCEPT !.output = @ \o SubSeq(st.text, i, sequenceEnd),
                            !.index = sequenceEnd + 1]
            ELSE LET enter == st.visibleIndex = st.start /\ ~st.inRange
                     inAfterEnter == st.inRange \/ enter
                     leave == st.visibleIndex = st.end /\ inAfterEnter
                 IN [st EXCEPT
                        !.output = @ \o (IF enter THEN st.bg ELSE <<>>)
                                     \o (IF leave THEN st.restore ELSE <<>>)
                                     \o <<st.text[i]>>,
                        !.inRange = inAfterEnter /\ ~leave,
                        !.visibleIndex = @ + 1,
                        !.index = i + 1]

applyBackgroundToVisibleRange(ansiText, start, end, backgroundAnsi, restoreBackgroundAnsi) ==
    IF Len(ansiText) = 0 \/ start >= end \/ end <= 0 THEN ansiText
    ELSE LET final == iterate(applyBackgroundStep,
                              [text |-> ansiText, start |-> start, end |-> end,
                               bg |-> backgroundAnsi, restore |-> restoreBackgroundAnsi,
                               output |-> <<>>, visibleIndex |-> 0, index |-> 1,
                               inRange |-> FALSE],
                              1, Len(ansiText))
         IN IF final.inRange THEN final.output \o restoreBackgroundAnsi ELSE final.output

(***************************************************************************)
(* Specification SpecApply: applyBackgroundToVisibleRange on bounded       *)
(* strings, ranges and colour sequences.                                   *)
(***************************************************************************)

MaxAnsiLen == 4
AnsiAlphabet == {ESC, "[", "m", "1", "a"}

BgRed == <<ESC, "[", "4", "1", "m">>
BgGreen == <<ESC, "[", "4", "2", "m">>
BgDefault == <<ESC, "[", "4", "9", "m">>
SgrReset == <<ESC, "[", "0", "m">>
ColourPairs == {<<BgRed, BgDefault>>, <<BgGreen, SgrReset>>}

InitApply ==
    /\ fn = "none"
    /\ arg \in [s : Strs(AnsiAlphabet, MaxAnsiLen), start : 0..(MaxAnsiLen - 1),
                end : 0..MaxAnsiLen, colours : ColourPairs]
    /\ res = NoResult
    /\ BuilderIdle
    /\ EditIdle

ApplyBackground ==
    /\ fn = "none"
    /\ fn' = "applyBackgroundToVisibleRange"
    /\ res' = applyBackgroundToVisibleRange(arg.s, arg.start, arg.end,
                                            arg.colours[1], arg.colours[2])
    /\ UNCHANGED <<arg, builderVars, editVars>>

StripInput ==
    /\ fn = "none"
    /\ fn' = "stripAnsi"
    /\ res' = stripAnsi(arg.s)
    /\ UNCHANGED <<arg, builderVars, editVars>>

NextApply == ApplyBackground \/ StripInput

SpecApply == InitApply /\ [][NextApply]_vars

\* C8: applyBackgroundToVisibleRange leaves the stripped text of its input unchanged,
\* for every input string, range and pair of colour sequences.
C8_StrippedTextUnchanged ==
    fn = "applyBackgroundToVisibleRange" => stripAnsi(res) = stripAnsi(arg.s)

(***************************************************************************)
(* Specification SpecPad: padRight and fitToWidth on bounded strings.      *)
(***************************************************************************)

MaxPadLen == 4
MaxPadWidth == 5
PadAlphabet == {ESC, "[", "m", " ", WIDE}

InitPad ==
    /\ fn = "none"
    /\ arg \in [s : Strs(PadAlphabet, MaxPadLen), width : 0..MaxPadWidth]
    /\ res = NoResult
    /\ BuilderIdle
    /\ EditIdle

PadRight ==
    /\ fn = "none"
    /\ fn' = "padRight"
    /\ res' = padRight(arg.s, arg.width)
    /\ UNCHANGED <<arg, builderVars, editVars>>

FitToWidth ==
    /\ fn = "none"
    /\ fn' = "fitToWidth"
    /\ res' = fitToWidth(arg.s, arg.width)
    /\ UNCHANGED <<arg, builderVars, editVars>>

NextPad == PadRight \/ FitToWidth

SpecPad == InitPad /\ [][NextPad]_vars

IsPrefixOf(p, s) == Len(p) <= Len(s) /\ SubSeq(s, 1, Len(p)) = p
AllSpaces(s) == \A i \in 1..Len(s) : s[i] = " "

\* C9: for w at least the visible width of s, padRight(s, w) has visible width
\* exactly w after stripping escapes, and is s followed by spaces only.
C9_PadRightExactWidth ==
    (fn = "padRight" /\ arg.width >= visibleWidth(stripAnsi(arg.s))) =>
        /\ visibleWidth(stripAnsi(res)) = arg.width
        /\ IsPrefixOf(arg.s, res)
        /\ AllSpaces(SubSeq(res, Len(arg.s) + 1, Len(res)))

C9_Witness ==
    /\ fn = "padRight"
    /\ Len(stripAnsi(arg.s)) < Len(arg.s)
    /\ \E i \in 1..Len(arg.s) : arg.s[i] = WIDE
    /\ arg.width > visibleWidth(stripAnsi(arg.s))
    /\ Len(res) > Len(arg.s)

\* A prefix of s of length n ends between two tokens of s: it cuts no escape sequence.
CutsNoSequence(s, n) ==
    \A i \in 1..n : LET last == csiMatchEnd(s, i) IN last > 0 => last <= n

\* C10: fitToWidth(s, width) has visible width exactly width; a string that fits is
\* only padded, a wider one is cut between whole characters and whole escape
\* sequences and then padded.
C10_FitToWidthExact ==
    fn = "fitToWidth" =>
        /\ visibleWidth(stripAnsi(res)) = arg.width
        /\ visibleWidth(stripAnsi(arg.s)) <= arg.width =>
               /\ IsPrefixOf(arg.s, res)
               /\ AllSpaces(SubSeq(res, Len(arg.s) + 1, Len(res)))
        /\ visibleWidth(stripAnsi(arg.s)) > arg.width =>
               \E n \in 0..Len(arg.s) :
                   /\ IsPrefixOf(SubSeq(arg.s, 1, n), res)
                   /\ AllSpaces(SubSeq(res, n + 1, Len(res)))
                   /\ CutsNoSequence(arg.s, n)

C10_Witness ==
    /\ fn = "fitToWidth"
    /\ visibleWidth(stripAnsi(arg.s)) > arg.width
    /\ \E i \in 1..Len(arg.s) : csiMatchEnd(arg.s, i) > 0
    /\ \E i \in 1..Len(arg.s) : arg.s[i] = WIDE
    /\ Len(res) > 0 /\ res[Len(res)] = " "

(***************************************************************************)
(* Colour model and palette: ansi256ToRgb, parseAnsiColorCode, rgbToBgAnsi,*)
(* mixRgb, resolveDiffPalette                                              *)
(***************************************************************************)

Rgb(r, g, b) == [r |-> r, g |-> g, b |-> b]
NoColor == Rgb(-1, -1, -1)     \* null, where a colour is expected
Undefined == <<"undefined">>   \* undefined, where a string is expected

Base16 ==
    <<Rgb(0, 0, 0), Rgb(128, 0, 0), Rgb(0, 128, 0), Rgb(128, 128, 0),
      Rgb(0, 0, 128), Rgb(128, 0, 128), Rgb(0, 128, 128), Rgb(192, 192, 192),
      Rgb(128, 128, 128), Rgb(255, 0, 0), Rgb(0, 255, 0), Rgb(255, 255, 0),
      Rgb(0, 0, 255), Rgb(255, 0, 255), Rgb(0, 255, 255), Rgb(255, 255, 255)>>

CubeLevels == <<0, 95, 135, 175, 215, 255>>

\* levels[i] ?? 0
levelAt(i) == IF i + 1 \in DOMAIN CubeLevels THEN CubeLevels[i + 1] ELSE 0

\* A variant whose grayscale ramp starts one code early.
ansi256ToRgbRampFrom231(code) ==
    IF code <= 15 THEN Base16[code + 1]
    ELSE IF code >= 232
    THEN LET value == Max(0, Min(255, 8 + (code - 231) * 10)) IN Rgb(value, value, value)
    ELSE LET cube == code - 16
         IN Rgb(levelAt((cube \div 36) % 6), levelAt((cube \div 6) % 6), levelAt(cube % 6))

\* A variant that reads the cube index with red and blue exchanged.
ansi256ToRgbBlueFirst(code) ==
    IF code <= 15 THEN Base16[code + 1]
    ELSE IF code >= 232
    THEN LET value == Max(0, Min(255, 8 + (code - 232) * 10)) IN Rgb(value, value, value)
    ELSE LET cube == code - 16
         IN Rgb(levelAt(cube % 6), levelAt((cube \div 6) % 6), levelAt((cube \div 36) % 6))

ansi256ToRgb(code) ==
    IF code <= 15 THEN Base16[code + 1]
    ELSE IF code >= 232
    THEN LET value == Max(0, Min(255, 8 + (code - 232) * 10)) IN Rgb(value, value, value)
    ELSE LET cube == code - 16
         IN Rgb(levelAt((cube \div 36) % 6), levelAt((cube \div 6) % 6), levelAt(cube % 6))

\* The text s[from..] starts with the literal lit.
StartsWithAt(s, from, lit) ==
    from + Len(lit) - 1 <= Len(s) /\ SubSeq(s, from, from + Len(lit) - 1) = lit

\* Length of the match of \d{1,3} at s[from] when the character after it is "after",
\* 0 when there is no such match.
digitGroup(s, from, after) ==
    LET n == RunLength(s, from, IsDigit)
    IN IF n \in 1..3 /\ from + n <= Len(s) /\ s[from + n] = after THEN n ELSE 0

\* /\x1b\[(?:3|4)8;2;(\d{1,3});(\d{1,3});(\d{1,3})m/ matched at ansi[i].
rgbMatchAt(ansi, i) ==
    IF (StartsWithAt(ansi, i, <<ESC, "[", "3", "8", ";", "2", ";">>)
        \/ StartsWithAt(ansi, i, <<ESC, "[", "4", "8", ";", "2", ";">>))
    THEN LET n1 == digitGroup(ansi, i + 7, ";")
             n2 == IF n1 > 0 THEN digitGroup(ansi, i + 8 + n1, ";") ELSE 0
             n3 == IF n2 > 0 THEN digitGroup(ansi, i + 9 + n1 + n2, "m") ELSE 0
         IN IF n3 > 0
            THEN [matched |-> TRUE,
                  color |-> Rgb(digitsToNumber(SubSeq(ansi, i + 7, i + 6 + n1)),
                                digitsToNumber(SubSeq(ansi, i + 8 + n1, i + 7 + n1 + n2)),
                                digitsToNumber(SubSeq(ansi, i + 9 + n1 + n2, i + 8 + n1 + n2 + n3)))]
            ELSE NoMatch
    ELSE NoMatch

\* /\x1b\[(?:3|4)8;5;(\d{1,3})m/ matched at ansi[i].
bitMatchAt(ansi, i) ==
    IF (StartsWithAt(ansi, i, <<ESC, "[", "3", "8", ";", "5", ";">>)
        \/ StartsWithAt(ansi, i, <<ESC, "[", "4", "8", ";", "5", ";">>))
    THEN LET n == digitGroup(ansi, i + 7, "m")
         IN IF n > 0
            THEN [matched |-> TRUE, code |-> digitsToNumber(SubSeq(ansi, i + 7, i + 6 + n))]
            ELSE NoMatch
    ELSE NoMatch

\* The least element of a non-empty set of integers.
Least(S) == CHOOSE x \in S : \A y \in S : x <= y

\* ansi is a string, or Undefined.
parseAnsiColorCode(ansi) ==
    IF ansi = Undefined THEN NoColor
    ELSE IF Len(ansi) = 0 THEN NoColor
    ELSE LET rgbAt == {i \in 1..Len(ansi) : rgbMatchAt(ansi, i).matched}
             bitAt == {i \in 1..Len(ansi) : bitMatchAt(ansi, i).matched}
         IN IF rgbAt # {} THEN rgbMatchAt(ansi, Least(rgbAt)).color
            ELSE IF bitAt # {} THEN ansi256ToRgb(bitMatchAt(ansi, Least(bitAt)).code)
            ELSE NoColor

\* A colour channel during blending, in hundredths (the ratios have two decimals).
\* Math.round(x) is floor(x + 0.5).
roundHundredths(h) == (h + 50) \div 100

clampChannel(v) == Max(0, Min(255, v))

\* rgbToBgAnsi of a colour whose channels are given in hundredths.
rgbToBgAnsi(color) ==
    <<ESC, "[", "4", "8", ";", "2", ";">>
        \o numberToString(clampChannel(roundHundredths(color.r))) \o <<";">>
        \o numberToString(clampChannel(roundHundredths(color.g))) \o <<";">>
        \o numberToString(clampChannel(roundHundredths(color.b))) \o <<"m">>

\* mixRgb with the ratio given in hundredths; the result is in hundredths.
mixRgb(base, tint, ratio) ==
    LET clamped == Max(0, Min(100, ratio))
    IN Rgb(base.r * (100 - clamped) + tint.r * clamped,
           base.g * (100 - clamped) + tint.g * clamped,
           base.b * (100 - clamped) + tint.b * clamped)

ADD_ROW_BACKGROUND_MIX_RATIO == 24
REMOVE_ROW_BACKGROUND_MIX_RATIO == 12
ADD_INLINE_EMPHASIS_MIX_RATIO == 44
REMOVE_INLINE_EMPHASIS_MIX_RATIO == 26

\* a ?? b
orElse(a, b) == IF a = NoColor THEN b ELSE a

\* A theme is a record of two functions, fg and bg, from colour names to escape
\* sequences; a name outside the domain has no sequence (undefined).
themeFgAnsi(theme, name) == IF name \in DOMAIN theme.fg THEN theme.fg[name] ELSE Undefined
themeBgAnsi(theme, name) == IF name \in DOMAIN theme.bg THEN theme.bg[name] ELSE Undefined

paletteOf(baseBg, addFg, removeFg) ==
    [addRowBgAnsi |-> rgbToBgAnsi(mixRgb(baseBg, addFg, ADD_ROW_BACKGROUND_MIX_RATIO)),
     removeRowBgAnsi |-> rgbToBgAnsi(mixRgb(baseBg, removeFg, REMOVE_ROW_BACKGROUND_MIX_RATIO)),
     addEmphasisBgAnsi |-> rgbToBgAnsi(mixRgb(baseBg, addFg, ADD_INLINE_EMPHASIS_MIX_RATIO)),
     removeEmphasisBgAnsi |-> rgbToBgAnsi(mixRgb(baseBg, removeFg, REMOVE_INLINE_EMPHASIS_MIX_RATIO))]

\* A variant that does not fall back to the pending background.
resolveDiffPaletteNoPending(theme) ==
    paletteOf(orElse(parseAnsiColorCode(themeBgAnsi(theme, "toolSuccessBg")), Rgb(32, 35, 42)),
              orElse(parseAnsiColorCode(themeFgAnsi(theme, "toolDiffAdded")), Rgb(88, 173, 88)),
              orElse(parseAnsiColorCode(themeFgAnsi(theme, "toolDiffRemoved")), Rgb(196, 98, 98)))

resolveDiffPalette(theme) ==
    paletteOf(orElse(parseAnsiColorCode(themeBgAnsi(theme, "toolSuccessBg")),
                     orElse(parseAnsiColorCode(themeBgAnsi(theme, "toolPendingBg")),
                            Rgb(32, 35, 42))),
              orElse(parseAnsiColorCode(themeFgAnsi(theme, "toolDiffAdded")), Rgb(88, 173, 88)),
              orElse(parseAnsiColorCode(themeFgAnsi(theme, "toolDiffRemoved")), Rgb(196, 98, 98)))

(***************************************************************************)
(* Specification SpecColor: parseAnsiColorCode on colour sequences and     *)
(* resolveDiffPalette on themes that may lack colours.                     *)
(***************************************************************************)

\* The sequence of a 256-colour code and of a 24-bit colour; layer is "3" for the
\* foreground and "4" for the background.
colour256(layer, n) == <<ESC, "[", layer, "8", ";", "5", ";">> \o numberToString(n) \o <<"m">>
colour24(layer, r, g, b) ==
    <<ESC, "[", layer, "8", ";", "2", ";">> \o numberToString(r) \o <<";">>
        \o numberToString(g) \o <<";">> \o numberToString(b) \o <<"m">>

ColourCodes == 0..255
ChannelValues == {0, 7, 42, 255, 999}

\* What a theme may hold for one colour name: nothing, a 256-colour sequence, a
\* 24-bit sequence, a sequence of the 16 basic colours, or the empty string.
NoEntry == [form |-> "missing"]
BasicEntry == [form |-> "basic"]
EmptyEntry == [form |-> "empty"]
Entry256(n) == [form |-> "256", code |-> n]
Entry24(r, g, b) == [form |-> "rgb", r |-> r, g |-> g, b |-> b]

Entries == {NoEntry, BasicEntry, EmptyEntry, Entry256(22), Entry24(10, 20, 30)}

\* The sequence of an entry that is present, in the foreground or background layer.
entryAnsi(entry, layer) ==
    CASE entry.form = "256" -> colour256(layer, entry.code)
      [] entry.form = "rgb" -> colour24(layer, entry.r, entry.g, entry.b)
      [] entry.form = "basic" -> <<ESC, "[", layer, "2", "m">>
      [] OTHER -> <<>>

\* One of the two functions of a theme, from the entries of two colour names.
themeLayer(layer, nameA, entryA, nameB, entryB) ==
    [name \in {n \in {nameA, nameB} : (IF n = nameA THEN entryA ELSE entryB) # NoEntry} |->
        entryAnsi(IF name = nameA THEN entryA ELSE entryB, layer)]

themeOf(entries) ==
    [fg |-> themeLayer("3", "toolDiffAdded", entries.added, "toolDiffRemoved", entries.removed),
     bg |-> themeLayer("4", "toolSuccessBg", entries.success, "toolPendingBg", entries.pending)]

ColourInputs ==
    {[form |-> "256", layer |-> l, code |-> n] : l \in {"3", "4"}, n \in ColourCodes}
        \cup [form : {"rgb"}, layer : {"3", "4"}, r : ChannelValues, g : ChannelValues,
              b : ChannelValues]
        \cup [form : {"theme"},
              entries : [success : Entries, pending : Entries, added : Entries, removed : Entries]]

InitColor ==
    /\ fn = "none"
    /\ arg \in ColourInputs
    /\ res = NoResult
    /\ BuilderIdle
    /\ EditIdle

ParseColor256 ==
    /\ fn = "none"
    /\ arg.form = "256"
    /\ fn' = "parseAnsiColorCode"
    /\ res' = parseAnsiColorCode(colour256(arg.layer, arg.code))
    /\ UNCHANGED <<arg, builderVars, editVars>>

ParseColor24 ==
    /\ fn = "none"
    /\ arg.form = "rgb"
    /\ fn' = "parseAnsiColorCode"
    /\ res' = parseAnsiColorCode(colour24(arg.layer, arg.r, arg.g, arg.b))
    /\ UNCHANGED <<arg, builderVars, editVars>>

ResolvePalette ==
    /\ fn = "none"
    /\ arg.form = "theme"
    /\ fn' = "resolveDiffPalette"
    /\ res' = resolveDiffPalette(themeOf(arg.entries))
    /\ UNCHANGED <<arg, builderVars, editVars>>

NextColor == ParseColor256 \/ ParseColor24 \/ ResolvePalette

SpecColor == InitColor /\ [][NextColor]_vars

Parsed256(n) == fn = "parseAnsiColorCode" /\ arg.form = "256" /\ arg.code = n

\* C11 as stated: code 232 gives (8,8,8) and code 255 gives (255,255,255).
C11_GrayEndsAsStated ==
    /\ Parsed256(232) => res = Rgb(8, 8, 8)
    /\ Parsed256(255) => res = Rgb(255, 255, 255)

\* C11, amended: a 256-colour sequence with code 232 parses to (8,8,8), and one with
\* code 255 parses to (238,238,238), the last step of the grayscale ramp.
C11_GrayEnds ==
    /\ Parsed256(232) => res = Rgb(8, 8, 8)
    /\ Parsed256(255) => res = Rgb(238, 238, 238)

C11_Witness == Parsed256(255) /\ arg.layer = "4" /\ res = Rgb(238, 238, 238)

Levels == <<0, 95, 135, 175, 215, 255>>

\* The colour the claim gives for a 256-colour code.
ClaimedColour(n) ==
    IF n <= 15 THEN Base16[n + 1]
    ELSE IF n <= 231
    THEN Rgb(Levels[((n - 16) \div 36) + 1], Levels[(((n - 16) \div 6) % 6) + 1],
             Levels[((n - 16) % 6) + 1])
    ELSE Rgb(8 + (n - 232) * 10, 8 + (n - 232) * 10, 8 + (n - 232) * 10)

\* C12: for every code n in 0..255, in the foreground and in the background form,
\* parseAnsiColorCode returns the table entry (0..15), the cube colour (16..231, so
\* code 21 gives (0,0,255)) or the gray 8 + (n-232)*10 (232..255); for a 24-bit form
\* it returns the three parsed channel values.
C12_ColourOfCode ==
    fn = "parseAnsiColorCode" =>
        /\ arg.form = "256" => res = ClaimedColour(arg.code)
        /\ (arg.form = "256" /\ arg.code = 21) => res = Rgb(0, 0, 255)
        /\ arg.form = "rgb" => res = Rgb(arg.r, arg.g, arg.b)

C12_Witness ==
    /\ fn = "parseAnsiColorCode"
    /\ arg.form = "256" /\ arg.code = 21 /\ arg.layer = "3"
    /\ res = Rgb(0, 0, 255)

\* The colour an entry of a theme stands for, NoColor when it is missing or cannot
\* be parsed.
EntryColour(entry) ==
    CASE entry.form = "256" -> ClaimedColour(entry.code)
      [] entry.form = "rgb" -> Rgb(entry.r, entry.g, entry.b)
      [] OTHER -> NoColor

FirstColour(a, b) == IF a # NoColor THEN a ELSE b

\* The text is one 24-bit background sequence and nothing else.
IsBackground24(text) ==
    /\ StartsWithAt(text, 1, <<ESC, "[", "4", "8", ";", "2", ";">>)
    /\ rgbMatchAt(text, 1).matched
    /\ \A i \in 2..Len(text) : text[i] # ESC
    /\ text[Len(text)] = "m"
    /\ Len(text) <= 19

\* C17: for a theme that lacks colours or holds sequences that cannot be parsed,
\* resolveDiffPalette blends from the success background, else the pending
\* background, else (32,35,42), with the add accent or else (88,173,88) and the
\* remove accent or else (196,98,98), and every one of the four entries is a
\* 24-bit background sequence.
C17_PaletteFallbacks ==
    fn = "resolveDiffPalette" =>
        /\ res = paletteOf(FirstColour(EntryColour(arg.entries.success),
                                       FirstColour(EntryColour(arg.entries.pending),
                                                   Rgb(32, 35, 42))),
                           FirstColour(EntryColour(arg.entries.added), Rgb(88, 173, 88)),
                           FirstColour(EntryColour(arg.entries.removed), Rgb(196, 98, 98)))
        /\ DOMAIN res = {"addRowBgAnsi", "removeRowBgAnsi", "addEmphasisBgAnsi",
                         "removeEmphasisBgAnsi"}
        /\ \A k \in DOMAIN res : IsBackground24(res[k])

\* The success background is missing, the pending one parses, and both accents
\* cannot be parsed.
C17_Witness ==
    /\ fn = "resolveDiffPalette"
    /\ arg.entries.success = NoEntry
    /\ arg.entries.pending = Entry256(22)
    /\ arg.entries.added = BasicEntry
    /\ arg.entries.removed = EmptyEntry
    /\ res.addRowBgAnsi = rgbToBgAnsi(mixRgb(Rgb(0, 95, 0), Rgb(88, 173, 88),
                                             ADD_ROW_BACKGROUND_MIX_RATIO))

\* theme.fg(color, text) of the host: the colour's sequence, the text, and the
\* sequence that restores the default foreground.
FgDefault == <<ESC, "[", "3", "9", "m">>
themeFg(theme, name, text) ==
    (IF name \in DOMAIN theme.fg THEN theme.fg[name] ELSE <<>>) \o text \o FgDefault

(***************************************************************************)
(* keepBackgroundAcrossResets, wrapPlainText                               *)
(***************************************************************************)

IsCodeChar(c) == IsDigit(c) \/ c = ";"

\* Index of the "m" that ends the match of /\x1b\[([0-9;]*)m/ at text[i], or 0.
sgrMatchEnd(text, i) ==
    IF text[i] = ESC /\ i + 1 <= Len(text) /\ text[i + 1] = "["
    THEN LET last == i + 2 + RunLength(text, i + 2, IsCodeChar)
         IN IF last <= Len(text) /\ text[last] = "m" THEN last ELSE 0
    ELSE 0

\* The loop of applyBackgroundToVisibleRange as it runs when only a well-formed colour
\* sequence, ESC [ digits-and-semicolons m, is copied as a sequence and every other ESC
\* is a visible character like any other.
literalEscapeStep(st, i) ==
    IF i < st.index THEN st
    ELSE LET sequenceEnd == sgrMatchEnd(st.text, i)
         IN IF sequenceEnd > 0
            THEN [st EXCEPT !.output = @ \o SubSeq(st.text, i, sequenceEnd),
                            !.index = sequenceEnd + 1]
            ELSE LET enter == st.visibleIndex = st.start /\ ~st.inRange
                     inAfterEnter == st.inRange \/ enter
                     leave == st.visibleIndex = st.end /\ inAfterEnter
                 IN [st EXCEPT
                        !.output = @ \o (IF enter THEN st.bg ELSE <<>>)
                                     \o (IF leave THEN st.restore ELSE <<>>)
                                     \o <<st.text[i]>>,
                        !.inRange = inAfterEnter /\ ~leave,
                        !.visibleIndex = @ + 1,
                        !.index = i + 1]

withLiteralEscapes(ansiText, start, end, backgroundAnsi, restoreBackgroundAnsi) ==
    IF Len(ansiText) = 0 \/ start >= end \/ end <= 0 THEN ansiText
    ELSE LET final == iterate(literalEscapeStep,
                              [text |-> ansiText, start |-> start, end |-> end,
                               bg |-> backgroundAnsi, restore |-> restoreBackgroundAnsi,
                               output |-> <<>>, visibleIndex |-> 0, index |-> 1,
                               inRange |-> FALSE],
                              1, Len(ansiText))
         IN IF final.inRange THEN final.output \o restoreBackgroundAnsi ELSE final.output

\* C22: in applyBackgroundToVisibleRange an ESC that does not begin a well-formed
\* colour sequence ended by "m" is a literal character: it and the characters after it
\* are each emitted and counted as one visible position, and no later visible text is
\* taken for a part of the escape.
C22_MalformedEscapeLiteral ==
    fn = "applyBackgroundToVisibleRange" =>
        res = withLiteralEscapes(arg.s, arg.start, arg.end, arg.colours[1], arg.colours[2])

\* The part of C22 that the loop keeps: an ESC with no "m" anywhere after it is a
\* literal character.
HasLaterM(s, i) == \E j \in i..Len(s) : s[j] = "m"
C22_HoldsWithoutLaterM ==
    (fn = "applyBackgroundToVisibleRange"
        /\ \A i \in 1..Len(arg.s) :
              (arg.s[i] = ESC /\ sgrMatchEnd(arg.s, i) = 0) => ~HasLaterM(arg.s, i)) =>
        res = withLiteralEscapes(arg.s, arg.start, arg.end, arg.colours[1], arg.colours[2])

\* rawCodes.split(";").filter(Boolean)
RECURSIVE splitCodes(_)
splitCodes(rawCodes) ==
    IF Len(rawCodes) = 0 THEN <<>>
    ELSE LET n == RunLength(rawCodes, 1, IsDigit)
             rest == SubSeq(rawCodes, n + 2, Len(rawCodes))
         IN IF n = 0 THEN splitCodes(rest) ELSE <<SubSeq(rawCodes, 1, n)>> \o splitCodes(rest)

\* codes.join(";")
RECURSIVE joinCodes(_)
joinCodes(codes) ==
    IF Len(codes) = 0 THEN <<>>
    ELSE IF Len(codes) = 1 THEN codes[1]
    ELSE codes[1] \o <<";">> \o joinCodes(Tail(codes))

\* The callback of the replace: what one SGR sequence is replaced with.
rewriteSgr(sequence, rowBgAnsi) ==
    LET parts == splitCodes(SubSeq(sequence, 3, Len(sequence) - 1))
        codes == IF Len(parts) > 0 THEN parts ELSE <<<<"0">>>>
        hasGlobalReset == \E k \in 1..Len(codes) : codes[k] = <<"0">>
        hasBgReset == \E k \in 1..Len(codes) : codes[k] = <<"4", "9">>
        rebuiltCodes == SelectSeq(codes, LAMBDA code : code # <<"4", "9">>)
        rebuilt == IF Len(rebuiltCodes) > 0
                   THEN <<ESC, "[">> \o joinCodes(rebuiltCodes) \o <<"m">>
                   ELSE <<>>
    IN IF ~hasGlobalReset /\ ~hasBgReset THEN sequence ELSE rebuilt \o rowBgAnsi

keepBackgroundStep(st, i) ==
    IF i < st.next THEN st
    ELSE LET last == sgrMatchEnd(st.text, i)
         IN IF last > 0
            THEN [st EXCEPT !.out = @ \o rewriteSgr(SubSeq(st.text, i, last), st.rowBg),
                            !.next = last + 1]
            ELSE [st EXCEPT !.out = Append(@, st.text[i]), !.next = i + 1]

keepBackgroundAcrossResets(text, rowBgAnsi) ==
    IF Len(text) = 0 THEN text
    ELSE iterate(keepBackgroundStep,
                 [text |-> text, rowBg |-> rowBgAnsi, out |-> <<>>, next |-> 1],
                 1, Len(text)).out

(***************************************************************************)
(* Specification SpecResets: keepBackgroundAcrossResets on texts made of   *)
(* SGR sequences, letters and a truncated escape.                          *)
(***************************************************************************)

MaxPieces == 3

EmptyReset == <<ESC, "[", "m">>                                    \* ESC[m
Bold == <<ESC, "[", "1", "m">>                                     \* ESC[1m
BoldBgReset == <<ESC, "[", "1", ";", "4", "9", "m">>               \* ESC[1;49m
ResetBold == <<ESC, "[", "0", ";", "1", "m">>                      \* ESC[0;1m
Fg256Colour49 == colour256("3", 49)                                \* ESC[38;5;49m
Fg24NoRed == colour24("3", 0, 9, 9)                                \* ESC[38;2;0;9;9m
Truncated == <<ESC, "[", "1">>                                     \* ESC[1 without "m"

ResetPieces ==
    {SgrReset, EmptyReset, BgDefault, Bold, BoldBgReset, ResetBold, Fg256Colour49, Fg24NoRed,
     Truncated, <<"a">>, <<"b">>}
PieceLists == UNION {[1..k -> ResetPieces] : k \in 0..MaxPieces}
RowBackgrounds == {BgRed, colour24("4", 9, 8, 7)}

RECURSIVE concatPieces(_)
concatPieces(pieces) ==
    IF Len(pieces) = 0 THEN <<>> ELSE Head(pieces) \o concatPieces(Tail(pieces))

\* arg holds the pieces the text is made of; the function is given their concatenation.
InitResets ==
    /\ fn = "none"
    /\ arg \in [pieces : PieceLists, rowBg : RowBackgrounds]
    /\ res = NoResult
    /\ BuilderIdle
    /\ EditIdle

KeepBackground ==
    /\ fn = "none"
    /\ fn' = "keepBackgroundAcrossResets"
    /\ res' = keepBackgroundAcrossResets(concatPieces(arg.pieces), arg.rowBg)
    /\ UNCHANGED <<arg, builderVars, editVars>>

\* The highlighted text goes through stripAnsi when the width of the line is measured.
StripKept ==
    /\ fn = "keepBackgroundAcrossResets"
    /\ fn' = "stripAnsi"
    /\ res' = stripAnsi(res)
    /\ UNCHANGED <<arg, builderVars, editVars>>

NextResets == KeepBackground \/ StripKept

SpecResets == InitResets /\ [][NextResets]_vars

IsSgrPiece(piece) == Len(piece) >= 3 /\ piece[1] = ESC /\ piece[Len(piece)] = "m"

\* The attributes an SGR sequence sets, from its parameters: 38 and 48 take the
\* parameters of their colour with them (5;n or 2;r;g;b).
RECURSIVE sgrAttributes(_)
sgrAttributes(params) ==
    IF Len(params) = 0 THEN <<>>
    ELSE LET extended == params[1] \in {<<"3", "8">>, <<"4", "8">>} /\ Len(params) >= 2
             taken == IF extended /\ params[2] = <<"5">> THEN Min(3, Len(params))
                      ELSE IF extended /\ params[2] = <<"2">> THEN Min(5, Len(params))
                      ELSE 1
         IN <<SubSeq(params, 1, taken)>> \o sgrAttributes(SubSeq(params, taken + 1, Len(params)))

attributesOf(piece) == sgrAttributes(splitCodes(SubSeq(piece, 3, Len(piece) - 1)))

\* A reset (code 0, or no code at all) or a background reset (code 49).
IsResetPiece(piece) ==
    /\ IsSgrPiece(piece)
    /\ \/ Len(attributesOf(piece)) = 0
       \/ \E k \in 1..Len(attributesOf(piece)) :
              attributesOf(piece)[k] \in {<<<<"0">>>>, <<<<"4", "9">>>>}

\* A reset sequence without its code 49, nothing when no code is left.
RECURSIVE joinAttributes(_)
joinAttributes(attributes) ==
    IF Len(attributes) = 0 THEN <<>>
    ELSE IF Len(attributes) = 1 THEN joinCodes(attributes[1])
    ELSE joinCodes(attributes[1]) \o <<";">> \o joinAttributes(Tail(attributes))

WithoutBgReset(piece) ==
    LET kept == SelectSeq(attributesOf(piece), LAMBDA a : a # <<<<"4", "9">>>>)
    IN IF Len(attributesOf(piece)) = 0 THEN SgrReset
       ELSE IF Len(kept) = 0 THEN <<>>
       ELSE <<ESC, "[">> \o joinAttributes(kept) \o <<"m">>

StartsWith(s, p) == Len(p) <= Len(s) /\ SubSeq(s, 1, Len(p)) = p
Drop(s, n) == SubSeq(s, n + 1, Len(s))

\* out is what the claim allows for the pieces: a reset without its code 49 and
\* then the row background; any other piece as it is, after which the row
\* background may be set once more.
RECURSIVE KeepsAsClaimed(_, _, _)
KeepsAsClaimed(out, pieces, rowBg) ==
    IF Len(pieces) = 0 THEN out = <<>>
    ELSE IF IsResetPiece(Head(pieces))
    THEN /\ StartsWith(out, WithoutBgReset(Head(pieces)) \o rowBg)
         /\ KeepsAsClaimed(Drop(out, Len(WithoutBgReset(Head(pieces)) \o rowBg)),
                           Tail(pieces), rowBg)
    ELSE /\ StartsWith(out, Head(pieces))
         /\ \/ KeepsAsClaimed(Drop(out, Len(Head(pieces))), Tail(pieces), rowBg)
            \/ /\ IsSgrPiece(Head(pieces))
               /\ StartsWith(Drop(out, Len(Head(pieces))), rowBg)
               /\ KeepsAsClaimed(Drop(out, Len(Head(pieces)) + Len(rowBg)), Tail(pieces), rowBg)

\* C21: in the output of keepBackgroundAcrossResets(s, rowBg) every SGR sequence of
\* s that is a reset (ESC[0m, ESC[m) or a background reset (ESC[49m) is followed at
\* once by rowBg and has lost its code 49, and every other SGR sequence and every
\* other character is emitted unchanged, in the same order.
C21_ResetsRestoreRowBackground ==
    fn = "keepBackgroundAcrossResets" => KeepsAsClaimed(res, arg.pieces, arg.rowBg)

\* The texts the claim holds of: no sequence has a parameter 49 that belongs to an
\* extended colour.
C21_HoldsWithoutColour49 ==
    (fn = "keepBackgroundAcrossResets"
         /\ \A k \in 1..Len(arg.pieces) : arg.pieces[k] # Fg256Colour49) =>
        KeepsAsClaimed(res, arg.pieces, arg.rowBg)

\* window.lastIndexOf(" "), 0-based, -1 when there is none.
lastIndexOfSpace(window) ==
    LET hits == {j \in 1..Len(window) : window[j] = " "}
    IN IF hits = {} THEN -1 ELSE (CHOOSE j \in hits : \A k \in hits : k <= j) - 1

\* A variant of the loop body that leaves the space to the next segment.
wrapBodyBreakBeforeSpace(safeText, safeWidth, cursor, lines) ==
    LET remaining == Len(safeText) - cursor
        window == Slice(safeText, cursor, cursor + safeWidth)
        breakOnSpace == lastIndexOfSpace(window)
    IN IF remaining <= safeWidth
       THEN [cursor |-> cursor, lines |-> Append(lines, Slice(safeText, cursor, Len(safeText))),
             done |-> TRUE]
       ELSE IF breakOnSpace > 0
       THEN [cursor |-> cursor + breakOnSpace,
             lines |-> Append(lines, Slice(safeText, cursor, cursor + breakOnSpace)),
             done |-> FALSE]
       ELSE [cursor |-> cursor + safeWidth, lines |-> Append(lines, window), done |-> FALSE]

\* One pass through the body of the while loop of wrapPlainText: the cursor and the
\* lines it leaves, and whether it left the loop with break.
wrapBody(safeText, safeWidth, cursor, lines) ==
    LET remaining == Len(safeText) - cursor
        window == Slice(safeText, cursor, cursor + safeWidth)
        breakOnSpace == lastIndexOfSpace(window)
    IN IF remaining <= safeWidth
       THEN [cursor |-> cursor, lines |-> Append(lines, Slice(safeText, cursor, Len(safeText))),
             done |-> TRUE]
       ELSE IF breakOnSpace > 0
       THEN [cursor |-> cursor + breakOnSpace + 1,
             lines |-> Append(lines, Slice(safeText, cursor, cursor + breakOnSpace + 1)),
             done |-> FALSE]
       ELSE [cursor |-> cursor + safeWidth, lines |-> Append(lines, window), done |-> FALSE]

\* The while loop of wrapPlainText from the given cursor on.
RECURSIVE wrapLoop(_, _, _, _)
wrapAfterBody(safeText, safeWidth, st) ==
    IF st.done THEN st.lines ELSE wrapLoop(safeText, safeWidth, st.cursor, st.lines)

wrapLoop(safeText, safeWidth, cursor, lines) ==
    IF cursor < Len(safeText)
    THEN wrapAfterBody(safeText, safeWidth, wrapBody(safeText, safeWidth, cursor, lines))
    ELSE lines

\* return lines.length > 0 ? lines : [""]
linesOrEmpty(lines) == IF Len(lines) > 0 THEN lines ELSE <<<<>>>>

wrapPlainText(text, width) ==
    LET safeWidth == Max(1, width)
        safeText == sanitizeSingleLineText(text)
    IN IF Len(safeText) = 0 THEN <<<<>>>>
       ELSE linesOrEmpty(wrapLoop(safeText, safeWidth, 0, <<>>))

(***************************************************************************)
(* Specification SpecWrap: wrapPlainText, one pass of its loop at a time.  *)
(***************************************************************************)

MaxWrapLen == 5
MaxWrapWidth == 4
WrapAlphabet == {"a", "b", " ", BEL}
WrapTexts == Strs(WrapAlphabet, MaxWrapLen)
WrapWidths == (-1)..MaxWrapWidth

\* The locals of a call of wrapPlainText: where it is, and what it returned.
WrapState(at, safeText, safeWidth, cursor, lines, returned) ==
    [pc |-> at, safeText |-> safeText, safeWidth |-> safeWidth, cursor |-> cursor,
     lines |-> lines, returned |-> returned]

InitWrap ==
    /\ fn = "none"
    /\ arg \in [text : WrapTexts, width : WrapWidths]
    /\ res = NoResult
    /\ BuilderIdle
    /\ EditIdle

\* The statements of wrapPlainText before the loop.
enterWrap(safeText, safeWidth) ==
    IF Len(safeText) = 0 THEN WrapState("done", safeText, safeWidth, 0, <<>>, <<<<>>>>)
    ELSE WrapState("loop", safeText, safeWidth, 0, <<>>, <<>>)

\* A variant that takes the width as it is given.
WrapEnterNoFloor ==
    /\ fn = "none"
    /\ fn' = "wrapPlainText"
    /\ res' = enterWrap(sanitizeSingleLineText(arg.text), arg.width)
    /\ UNCHANGED <<arg, builderVars, editVars>>

WrapEnter ==
    /\ fn = "none"
    /\ fn' = "wrapPlainText"
    /\ res' = enterWrap(sanitizeSingleLineText(arg.text), Max(1, arg.width))
    /\ UNCHANGED <<arg, builderVars, editVars>>

\* The call after one pass through the loop body.
afterBody(st, body) ==
    IF body.done
    THEN WrapState("done", st.safeText, st.safeWidth, body.cursor, body.lines,
                   linesOrEmpty(body.lines))
    ELSE WrapState("loop", st.safeText, st.safeWidth, body.cursor, body.lines, <<>>)

\* The test of the while loop, and the loop body or the return statement.
WrapIterate ==
    /\ fn = "wrapPlainText"
    /\ res.pc = "loop"
    /\ res' = IF res.cursor < Len(res.safeText)
              THEN afterBody(res, wrapBody(res.safeText, res.safeWidth, res.cursor, res.lines))
              ELSE WrapState("done", res.safeText, res.safeWidth, res.cursor, res.lines,
                             linesOrEmpty(res.lines))
    /\ UNCHANGED <<fn, arg, builderVars, editVars>>

NextWrap == WrapEnter \/ WrapIterate

SpecWrap == InitWrap /\ [][NextWrap]_vars

\* A call that has started goes on: the function runs without suspension.
SpecWrapLive == SpecWrap /\ WF_vars(NextWrap)

WrapReturned == fn = "wrapPlainText" /\ res.pc = "done"

RECURSIVE ConcatAll(_)
ConcatAll(segments) ==
    IF Len(segments) = 0 THEN <<>> ELSE Head(segments) \o ConcatAll(Tail(segments))

\* Total length of the first k segments.
RECURSIVE LengthBefore(_, _)
LengthBefore(segments, k) ==
    IF k = 0 THEN 0 ELSE LengthBefore(segments, k - 1) + Len(segments[k])

\* The segment the claim gives for a window that is not the last one.
SegmentOfWindow(window) ==
    LET spaces == {j \in 2..Len(window) : window[j] = " "}
    IN IF spaces = {} THEN window
       ELSE SubSeq(window, 1, CHOOSE j \in spaces : \A k \in spaces : k <= j)

\* C23: for every text and width w >= 1 the segments are at most w long and their
\* concatenation is the sanitized text; a segment that is not the last ends just
\* after the last space of its window when the window has a space after its first
\* character and is the whole window otherwise; an empty text gives [""].
C23_WrapSegments ==
    (WrapReturned /\ arg.width >= 1) =>
        LET safe == sanitizeSingleLineText(arg.text)
            segments == res.returned
        IN /\ \A k \in 1..Len(segments) : Len(segments[k]) <= arg.width
           /\ ConcatAll(segments) = safe
           /\ \A k \in 1..(Len(segments) - 1) :
                  segments[k]
                      = SegmentOfWindow(Slice(safe, LengthBefore(segments, k - 1),
                                              LengthBefore(segments, k - 1) + arg.width))
           /\ Len(safe) = 0 => segments = <<<<>>>>
           /\ segments = wrapPlainText(arg.text, arg.width)

\* A text wrapped at a space and, further on, in the middle of a word.
C23_Witness ==
    /\ WrapReturned
    /\ arg.text = <<"a", " ", "b", "b", "b">>
    /\ arg.width = 2
    /\ res.returned = <<<<"a", " ">>, <<"b", "b">>, <<"b">>>>

\* A pass through the loop body that does not leave the loop moves the cursor on.
C29_CursorStep ==
    (fn = "wrapPlainText" /\ res.pc = "loop" /\ res'.pc = "loop") =>
        /\ res'.cursor > res.cursor
        /\ res'.cursor < Len(res.safeText)
        /\ Len(res'.lines) = Len(res.lines) + 1

Terminates == <>(fn = "wrapPlainText" /\ res.pc = "done")

\* C29 as it is stated: wrapPlainText terminates for every text and every width,
\* the cursor increases with every pass that stays in the loop, every segment of a
\* non-empty text is non-empty, and there are at most as many segments as the
\* sanitized text has characters.
C29_SegmentsAsStated ==
    WrapReturned =>
        /\ Len(arg.text) > 0 => \A k \in 1..Len(res.returned) : Len(res.returned[k]) > 0
        /\ Len(res.returned) <= Len(res.safeText)

C29_Segments ==
    WrapReturned =>
        /\ res.safeWidth = Max(1, arg.width)
        /\ Len(res.safeText) > 0 =>
               /\ \A k \in 1..Len(res.returned) : Len(res.returned[k]) > 0
               /\ Len(res.returned) <= Len(res.safeText)
        /\ Len(res.safeText) = 0 => res.returned = <<<<>>>>

\* C29, for the texts it holds of: wrapPlainText terminates for every text and every
\* width, a width below 1 counting as 1; the cursor increases with every pass that
\* stays in the loop; when the sanitized text is not empty every segment is
\* non-empty and there are at most as many segments as it has characters, and when
\* it is empty the one segment "" is returned.
C29_WrapTerminates == Terminates /\ []C29_Segments /\ [][C29_CursorStep]_vars

\* A call with width 0 returned one segment for each character.
C29_Witness ==
    /\ WrapReturned
    /\ arg.width = 0
    /\ Len(res.safeText) = MaxWrapLen
    /\ Len(res.returned) = MaxWrapLen

padRenderedLineWidth(line, width) ==
    LET safeWidth == Max(1, width)
        current == visibleWidth(stripAnsi(line))
    IN IF current >= safeWidth THEN line ELSE line \o repeat(" ", safeWidth - current)

(***************************************************************************)
(* SplitDiffComponent                                                      *)
(***************************************************************************)

MARK == "MARK"   \* the marker glyph of an added or removed line
VBAR == "VBAR"   \* the vertical divider glyph
HBAR == "HBAR"   \* the horizontal border glyph
TEE == "TEE"     \* the glyph where the border meets a divider

MAX_HIGHLIGHT_CACHE_ENTRIES == 2048
MAX_HIGHLIGHT_LINE_LENGTH == 4000

None == <<>>         \* undefined, for a value that is otherwise Some(x)
Some(x) == <<x>>

UndefinedText == <<"u", "n", "d", "e", "f", "i", "n", "e", "d">>
\* `${value}` of a string that may be undefined.
templateText(value) == IF value = Undefined THEN UndefinedText ELSE value

\* A Map in insertion order: a sequence of [key, value] entries.
mapHas(map, key) == \E k \in 1..Len(map) : map[k].key = key
mapGet(map, key) == map[CHOOSE k \in 1..Len(map) : map[k].key = key].value
mapSet(map, key, value) ==
    IF mapHas(map, key)
    THEN [k \in 1..Len(map) |-> IF map[k].key = key THEN [key |-> key, value |-> value] ELSE map[k]]
    ELSE Append(map, [key |-> key, value |-> value])

\* The behaviours of the external highlightCode(code, language) the model draws from:
\* it throws, it returns no line, or it returns one line with colour sequences.
Highlighters == {"throws", "nothing", "keyword", "reset", "bold", "background"}

firstWordLength(text) == RunLength(text, 1, LAMBDA c : c # " ")

highlightCode(behaviour, code) ==
    CASE behaviour = "nothing" -> <<>>
      [] behaviour = "keyword" ->
            <<<<ESC, "[", "3", "5", "m">> \o SubSeq(code, 1, firstWordLength(code)) \o FgDefault
                \o SubSeq(code, firstWordLength(code) + 1, Len(code))>>
      [] behaviour = "reset" ->
            <<<<ESC, "[", "3", "5", "m">> \o SubSeq(code, 1, firstWordLength(code))
                \o <<ESC, "[", "0", "m">> \o SubSeq(code, firstWordLength(code) + 1, Len(code))>>
      [] behaviour = "bold" -> <<<<ESC, "[", "1", "m">> \o code \o <<ESC, "[", "0", "m">>>>
      [] behaviour = "background" ->
            <<<<ESC, "[", "4", "4", "m">> \o code \o <<ESC, "[", "4", "9", "m">>>>

\* Index of the "m" that ends the match of BG_ANSI_PATTERN at text[i], or 0.
bgMatchEnd(text, i) ==
    IF text[i] = ESC /\ i + 1 <= Len(text) /\ text[i + 1] = "["
    THEN LET at(k) == IF k <= Len(text) THEN text[k] ELSE ""
             short == IF at(i + 2) = "4" /\ IsDigit(at(i + 3)) /\ at(i + 4) = "m" THEN i + 4 ELSE 0
             bright == IF at(i + 2) = "1" /\ at(i + 3) = "0" /\ IsDigit(at(i + 4)) /\ at(i + 5) = "m"
                       THEN i + 5 ELSE 0
             n == IF StartsWithAt(text, i + 2, <<"4", "8", ";", "5", ";">>)
                  THEN digitGroup(text, i + 7, "m") ELSE 0
             indexed == IF n > 0 THEN i + 7 + n ELSE 0
             n1 == IF StartsWithAt(text, i + 2, <<"4", "8", ";", "2", ";">>)
                   THEN digitGroup(text, i + 7, ";") ELSE 0
             n2 == IF n1 > 0 THEN digitGroup(text, i + 8 + n1, ";") ELSE 0
             n3 == IF n2 > 0 THEN digitGroup(text, i + 9 + n1 + n2, "m") ELSE 0
             direct == IF n3 > 0 THEN i + 9 + n1 + n2 + n3 ELSE 0
         IN Max(Max(short, bright), Max(indexed, direct))
    ELSE 0

removeBgStep(st, i) ==
    IF i < st.next THEN st
    ELSE LET last == bgMatchEnd(st.text, i)
         IN IF last > 0 THEN [st EXCEPT !.next = last + 1]
            ELSE [st EXCEPT !.out = Append(@, st.text[i]), !.next = i + 1]

\* highlighted.replace(BG_ANSI_PATTERN, "")
removeBackgroundCodes(text) ==
    iterate(removeBgStep, [text |-> text, out |-> <<>>, next |-> 1], 1, Len(text)).out

stripInlineBreaksPreserveAnsi(value) == SelectSeq(value, LAMBDA c : c \notin {CR, LF})

\* What stands for an exception of the highlighter that nothing caught.
Thrown == <<"THROWN">>

\* A variant without the catch: the exception of the highlighter leaves syntaxHighlight.
highlightOrPlainUncaught(behaviour, safeLine) ==
    IF behaviour = "throws" THEN Thrown
    ELSE LET lines == highlightCode(behaviour, safeLine)
             first == IF Len(lines) > 0 THEN lines[1] ELSE safeLine
         IN removeBackgroundCodes(stripInlineBreaksPreserveAnsi(first))

\* The try block of syntaxHighlight and its catch.
highlightOrPlain(behaviour, safeLine) ==
    IF behaviour = "throws" THEN safeLine
    ELSE LET lines == highlightCode(behaviour, safeLine)
             first == IF Len(lines) > 0 THEN lines[1] ELSE safeLine
         IN removeBackgroundCodes(stripInlineBreaksPreserveAnsi(first))

\* The end of syntaxHighlight: the oldest entry leaves a full cache, and the
\* highlighted text is stored under the key and returned.
storeHighlighted(cache, key, highlighted) ==
    [text |-> highlighted,
     cache |-> mapSet(IF Len(cache) >= MAX_HIGHLIGHT_CACHE_ENTRIES THEN Tail(cache) ELSE cache,
                      key, highlighted)]

\* syntaxHighlight after its first statement, given the line it sanitized.
highlightSafeLine(comp, cache, behaviour, safeLine) ==
    IF comp.language = None THEN [text |-> safeLine, cache |-> cache]
    ELSE IF Len(safeLine) > MAX_HIGHLIGHT_LINE_LENGTH THEN [text |-> safeLine, cache |-> cache]
    ELSE IF mapHas(cache, <<comp.language, safeLine>>)
                /\ Len(mapGet(cache, <<comp.language, safeLine>>)) > 0
    THEN [text |-> mapGet(cache, <<comp.language, safeLine>>), cache |-> cache]
    ELSE storeHighlighted(cache, <<comp.language, safeLine>>, highlightOrPlain(behaviour, safeLine))

\* syntaxHighlight: the text it returns and the highlight cache it leaves.
syntaxHighlight(comp, cache, behaviour, line) ==
    highlightSafeLine(comp, cache, behaviour, sanitizeSingleLineText(line))

getCellLineKind(kind, side) ==
    IF kind = "changed" THEN (IF side = "left" THEN "remove" ELSE "add")
    ELSE IF kind = "removed" /\ side = "left" THEN "remove"
    ELSE IF kind = "added" /\ side = "right" THEN "add"
    ELSE "context"

\* line is Some(DiffLine) or None.
getVisualLineKind(kind, side, line) ==
    LET text == IF line = None THEN <<>> ELSE line[1].line
    IN IF kind \in {"added", "removed"} /\ text = <<>> THEN "context"
       ELSE getCellLineKind(kind, side)

getNumberColor(lineKind) ==
    IF lineKind = "remove" THEN "toolDiffRemoved"
    ELSE IF lineKind = "add" THEN "toolDiffAdded"
    ELSE "dim"

getRowBackground(comp, lineKind) ==
    IF lineKind = "add" THEN comp.palette.addRowBgAnsi
    ELSE IF lineKind = "remove" THEN comp.palette.removeRowBgAnsi
    ELSE Undefined

getEmphasisBackground(comp, lineKind) ==
    IF lineKind = "add" THEN comp.palette.addEmphasisBgAnsi
    ELSE IF lineKind = "remove" THEN comp.palette.removeEmphasisBgAnsi
    ELSE Undefined

getCellFillBackground(comp, kind, side) ==
    CASE kind = "changed" ->
            IF side = "left" THEN comp.palette.removeRowBgAnsi ELSE comp.palette.addRowBgAnsi
      [] kind = "removed" -> IF side = "left" THEN comp.palette.removeRowBgAnsi ELSE Undefined
      [] kind = "added" -> IF side = "right" THEN comp.palette.addRowBgAnsi ELSE Undefined
      [] OTHER -> Undefined

markerCharOf(lineKind) == IF lineKind \in {"add", "remove"} THEN MARK ELSE " "
markerColorOf(lineKind) ==
    IF lineKind = "add" THEN "toolDiffAdded"
    ELSE IF lineKind = "remove" THEN "toolDiffRemoved"
    ELSE "borderMuted"

Divider == <<" ", VBAR, " ">>

\* `${bg}${keepBackgroundAcrossResets(rendered, bg)}${this.containerBgAnsi}` when the
\* cell has a background, rendered otherwise.
withBackground(comp, rendered, bg) ==
    IF bg # Undefined
    THEN bg \o keepBackgroundAcrossResets(rendered, bg) \o templateText(comp.containerBgAnsi)
    ELSE rendered

\* The prefix of a cell line without colours: marker, space, line number, divider.
prefixPlainOf(markerChar, lineNumber) == <<markerChar, " ">> \o lineNumber \o Divider

\* The prefix of a cell line with colours.
prefixAnsiOf(comp, lineKind, numberColor, lineNumber) ==
    themeFg(comp.theme, markerColorOf(lineKind), <<markerCharOf(lineKind)>>) \o <<" ">>
        \o themeFg(comp.theme, numberColor, lineNumber)
        \o themeFg(comp.theme, "borderMuted", Divider)

\* blankCell, given the line kind of the cell.
blankCellOfKind(comp, lineKind, bg, columnWidth) ==
    padRenderedLineWidth(
        withBackground(comp,
            prefixAnsiOf(comp, lineKind, "dim", repeat(" ", comp.lineNumberWidth))
                \o repeat(" ", Max(0, columnWidth
                                        - visibleWidth(prefixPlainOf(markerCharOf(lineKind),
                                                                     repeat(" ", comp.lineNumberWidth))))),
            bg),
        columnWidth)

blankCell(comp, kind, side, columnWidth) ==
    blankCellOfKind(comp, getCellLineKind(kind, side), getCellFillBackground(comp, kind, side),
                    columnWidth)

\* value.padStart(width, " ")
padStart(value, width) ==
    IF Len(value) >= width THEN value ELSE repeat(" ", width - Len(value)) \o value

\* The loop over the spans of one segment, from the last span to the first.
RECURSIVE emphasize(_, _, _, _, _, _, _)
emphasize(segment, spans, si, segmentStart, segmentLength, emphasisBg, restoreBg) ==
    IF si < 1 THEN segment
    ELSE LET span == spans[si]
             localStart == Max(0, span.start - segmentStart)
             localEnd == Min(segmentLength, span.end - segmentStart)
             next == IF localEnd > localStart
                     THEN applyBackgroundToVisibleRange(segment, localStart, localEnd,
                                                        emphasisBg, restoreBg)
                     ELSE segment
         IN emphasize(next, spans, si - 1, segmentStart, segmentLength, emphasisBg, restoreBg)

\* The loop over the spans, entered when the line has spans and an emphasis colour.
emphasizeSegment(st, plainSegment, segment) ==
    IF Len(st.spans) > 0 /\ st.emphasisBg # Undefined
    THEN emphasize(segment, st.spans, Len(st.spans), st.consumed, Len(plainSegment),
                   st.emphasisBg,
                   IF st.rowBg # Undefined THEN st.rowBg ELSE templateText(st.comp.containerBgAnsi))
    ELSE segment

\* The defensive pad of a cell line whose visible width is short of the expected one.
padToExpectedWidth(rendered, currentWidth, expectedWidth) ==
    IF currentWidth < expectedWidth
    THEN rendered \o repeat(" ", expectedWidth - currentWidth) ELSE rendered

defensivePad(rendered, expectedWidth) ==
    padToExpectedWidth(rendered, visibleWidth(stripAnsi(rendered)), expectedWidth)

\* The rest of one iteration, given what syntaxHighlight returned for the segment.
formatSegment(st, i, plainSegment, hl) ==
    [st EXCEPT
        !.lines = Append(@,
            padRenderedLineWidth(
                withBackground(st.comp,
                    defensivePad(
                        (IF i = 1 THEN st.firstPrefixAnsi ELSE st.contPrefixAnsi)
                            \o fitToWidth(emphasizeSegment(st, plainSegment, hl.text), st.codeWidth),
                        visibleWidth(IF i = 1 THEN st.firstPrefixPlain ELSE st.contPrefixPlain)
                            + st.codeWidth),
                    st.rowBg),
                st.columnWidth)),
        !.consumed = @ + Len(plainSegment),
        !.cache = hl.cache]

\* One iteration of the loop of formatCellLines over the plain segments.
formatSegmentStep(st, i) ==
    formatSegment(st, i, st.plainSegments[i],
                  syntaxHighlight(st.comp, st.cache, st.behaviour, st.plainSegments[i]))

\* The locals of formatCellLines before its loop, given the line kind and the padded
\* line number.
cellState(comp, cache, behaviour, spans, columnWidth, lineKind, lineNumber) ==
    [comp |-> comp, cache |-> cache, behaviour |-> behaviour,
     firstPrefixAnsi |-> prefixAnsiOf(comp, lineKind, getNumberColor(lineKind), lineNumber),
     firstPrefixPlain |-> prefixPlainOf(markerCharOf(lineKind), lineNumber),
     contPrefixAnsi |-> prefixAnsiOf(comp, lineKind, "dim", repeat(" ", comp.lineNumberWidth)),
     contPrefixPlain |-> prefixPlainOf(markerCharOf(lineKind), repeat(" ", comp.lineNumberWidth)),
     codeWidth |-> Max(1, columnWidth
                             - visibleWidth(prefixPlainOf(markerCharOf(lineKind), lineNumber))),
     columnWidth |-> columnWidth,
     rowBg |-> getRowBackground(comp, lineKind),
     emphasisBg |-> getEmphasisBackground(comp, lineKind),
     plainSegments |-> <<>>,
     spans |-> spans,
     consumed |-> 0,
     lines |-> <<>>]

\* const plainSegments = wrapPlainText(line.line, codeWidth)
withSegments(st, text) == [st EXCEPT !.plainSegments = wrapPlainText(text, st.codeWidth)]

\* The loop of formatCellLines over the plain segments.
formatSegments(st) == iterate(formatSegmentStep, st, 1, Len(st.plainSegments))

\* The lines a loop built and the highlight cache it left.
linesAndCache(st) == [lines |-> st.lines, cache |-> st.cache]

\* formatCellLines: the lines of one cell and the highlight cache it leaves; line is
\* Some(DiffLine) or None, spans the entry of inlineHighlights for that line.
formatCellLines(comp, cache, behaviour, kind, side, line, spans, columnWidth) ==
    IF line = None
    THEN [lines |-> <<blankCell(comp, kind, side, columnWidth)>>, cache |-> cache]
    ELSE linesAndCache(formatSegments(withSegments(
             cellState(comp, cache, behaviour, spans, columnWidth,
                       getVisualLineKind(kind, side, line),
                       padStart(trim(line[1].lineNumber), comp.lineNumberWidth)),
             line[1].line)))

\* The loop of formatCellLines up to the end of its loop over the spans: the values
\* of segment, one for each plain segment.
emphasisStep(st, i) ==
    [st EXCEPT
        !.lines = Append(@, emphasizeSegment(st, st.plainSegments[i],
                                syntaxHighlight(st.comp, st.cache, st.behaviour,
                                                st.plainSegments[i]).text)),
        !.consumed = @ + Len(st.plainSegments[i])]

emphasisLoop(st) == iterate(emphasisStep, st, 1, Len(st.plainSegments)).lines

emphasizedSegments(comp, behaviour, kind, side, line, spans, columnWidth) ==
    IF line = None THEN <<>>
    ELSE emphasisLoop(withSegments(
             cellState(comp, <<>>, behaviour, spans, columnWidth,
                       getVisualLineKind(kind, side, line),
                       padStart(trim(line[1].lineNumber), comp.lineNumberWidth)),
             line[1].line))

ARROW == "ARROW"        \* the arrow glyph that starts a result line
BLOCK == "BLOCK"        \* the bar glyph of the diff meter
ELLIPSIS == "ELLIPSIS"  \* the character that ends a truncated text

MoreRowsText == <<" ", "m", "o", "r", "e", " ", "r", "o", "w", "s">>

\* value.padStart(3, "0")
padStartZero(value) == repeat("0", 3 - Len(value)) \o value

formatTopBorderCell(comp, columnWidth) ==
    LET safeColumnWidth == Max(1, columnWidth)
        dividerIndex == comp.lineNumberWidth + 3
        chars == [k \in 1..safeColumnWidth |-> IF k = dividerIndex + 1 THEN TEE ELSE HBAR]
    IN themeFg(comp.theme, "borderMuted", chars)

\* formatHeaderCell, given the label fitted to the line-number column.
headerCellOf(comp, lineNumberLabel, columnWidth) ==
    padRenderedLineWidth(
        themeFg(comp.theme, "borderMuted", <<" ", " ">>)
            \o themeFg(comp.theme, "dim", lineNumberLabel)
            \o themeFg(comp.theme, "borderMuted", Divider)
            \o repeat(" ", Max(0, columnWidth
                                    - visibleWidth(<<" ", " ">> \o stripAnsi(lineNumberLabel)
                                                       \o Divider))),
        columnWidth)

formatHeaderCell(comp, label, columnWidth) ==
    headerCellOf(comp, fitToWidth(label, comp.lineNumberWidth), columnWidth)

\* row.left / row.right as Some(DiffLine) or None.
cellLine(row, side) == IF side \in DOMAIN row THEN Some(row[side]) ELSE None

\* this.inlineHighlights.get(line) ?? [] for the line on one side of row i.
spansOf(comp, i, side) ==
    IF side \in DOMAIN comp.inlineHighlights[i] THEN comp.inlineHighlights[i][side] ELSE <<>>

\* leftCellLines[k] ?? this.blankCell(fallbackKind, side, columnWidth)
cellOrBlank(comp, cellLines, k, kind, side, columnWidth) ==
    IF k <= Len(cellLines) THEN cellLines[k]
    ELSE blankCell(comp, IF kind = "changed" THEN "context" ELSE kind, side, columnWidth)

\* The inner loop of render: the joined lines of one row, given the lines of its cells.
joinRow(st, row, left, right) ==
    [st EXCEPT
        !.lines = @ \o [k \in 1..Max(Len(left.lines), Len(right.lines)) |->
                           padRenderedLineWidth(
                               cellOrBlank(st.comp, left.lines, k, row.kind, "left", st.leftWidth)
                                   \o st.columnSeparator
                                   \o cellOrBlank(st.comp, right.lines, k, row.kind, "right",
                                                  st.rightWidth),
                               st.safeWidth)],
        !.cache = right.cache]

\* The right cell of a row, formatted after the left one.
formatRight(st, i, row, left) ==
    joinRow(st, row, left,
            formatCellLines(st.comp, left.cache, st.behaviour, row.kind, "right",
                            cellLine(row, "right"), spansOf(st.comp, i, "right"), st.rightWidth))

\* One iteration of the loop of render over the rows.
renderRowStep(st, i) ==
    formatRight(st, i, st.comp.rows[i],
                formatCellLines(st.comp, st.cache, st.behaviour, st.comp.rows[i].kind, "left",
                                cellLine(st.comp.rows[i], "left"), spansOf(st.comp, i, "left"),
                                st.leftWidth))

\* The two lines render pushes before the rows.
headerLines(comp, safeWidth, leftWidth, rightWidth) ==
    <<padRenderedLineWidth(
          formatTopBorderCell(comp, leftWidth)
              \o themeFg(comp.theme, "borderMuted", <<HBAR, TEE, HBAR>>)
              \o formatTopBorderCell(comp, rightWidth),
          safeWidth),
      padRenderedLineWidth(
          formatHeaderCell(comp, <<"o", "l", "d">>, leftWidth)
              \o themeFg(comp.theme, "borderMuted", Divider)
              \o formatHeaderCell(comp, <<"n", "e", "w">>, rightWidth),
          safeWidth)>>

\* A variant that also reports 0 more rows when the rows just fill the cap.
withMoreRowsAtCap(comp, body) ==
    [lines |-> body.lines
                 \o (IF Len(comp.rows) >= comp.maxRows
                     THEN <<themeFg(comp.theme, "muted",
                                    <<".", ".", ".", " ">>
                                        \o numberToString(Len(comp.rows) - comp.maxRows)
                                        \o MoreRowsText)>>
                     ELSE <<>>),
     cache |-> body.cache]

\* The line render pushes after the rows when there are more rows than maxRows.
withMoreRows(comp, body) ==
    [lines |-> body.lines
                 \o (IF Len(comp.rows) > comp.maxRows
                     THEN <<themeFg(comp.theme, "muted",
                                    <<".", ".", ".", " ">>
                                        \o numberToString(Len(comp.rows) - comp.maxRows)
                                        \o MoreRowsText)>>
                     ELSE <<>>),
     cache |-> body.cache]

\* The lines of render, given the widths of its columns.
renderColumns(comp, cache, behaviour, safeWidth, leftWidth, rightWidth) ==
    withMoreRows(comp,
        iterate(renderRowStep,
                [comp |-> comp, cache |-> cache, behaviour |-> behaviour,
                 leftWidth |-> leftWidth, rightWidth |-> rightWidth,
                 safeWidth |-> safeWidth,
                 columnSeparator |-> themeFg(comp.theme, "borderMuted", Divider),
                 lines |-> headerLines(comp, safeWidth, leftWidth, rightWidth)],
                1, Min(Len(comp.rows), Max(0, comp.maxRows))))

\* The widths of the columns of render, given safeWidth and separatorWidth.
renderWidths(comp, cache, behaviour, safeWidth, separatorWidth) ==
    renderColumns(comp, cache, behaviour, safeWidth,
                  Max(20, (safeWidth - separatorWidth) \div 2),
                  Max(20, safeWidth - separatorWidth - Max(20, (safeWidth - separatorWidth) \div 2)))

\* The body of render after its cache check: the lines it builds and the highlight
\* cache it leaves.
renderLines(comp, cache, behaviour, width) ==
    renderWidths(comp, cache, behaviour, Max(20, width),
                 visibleWidth(stripAnsi(themeFg(comp.theme, "borderMuted", Divider))))

\* The end of render: the lines are stored under the width and returned.
storeLines(fresh, width) ==
    [lines |-> fresh.lines, cacheWidth |-> Some(width), cacheLines |-> Some(fresh.lines),
     highlightCache |-> fresh.cache, fromCache |-> FALSE]

\* A variant of render that never looks at the cached lines.
renderWithoutCache(comp, cachedWidth, cachedLines, cache, behaviour, width) ==
    storeLines(renderLines(comp, cache, behaviour, width), width)

\* SplitDiffComponent.render(width), given the fields cacheWidth, cacheLines and
\* highlightCache: the lines it returns, the fields it leaves, and whether the lines
\* came from the width-keyed cache.
render(comp, cachedWidth, cachedLines, cache, behaviour, width) ==
    IF cachedWidth = Some(width) /\ cachedLines # None
    THEN [lines |-> cachedLines[1], cacheWidth |-> cachedWidth, cacheLines |-> cachedLines,
          highlightCache |-> cache, fromCache |-> TRUE]
    ELSE storeLines(renderLines(comp, cache, behaviour, width), width)

\* The constructor's running maximum of the digits of the line numbers.
RECURSIVE maxDigits(_, _)
maxDigits(rs, k) ==
    IF k = 0 THEN 3
    ELSE LET row == rs[k]
             leftDigits == IF "left" \in DOMAIN row THEN Len(trim(row.left.lineNumber)) ELSE 0
             rightDigits == IF "right" \in DOMAIN row THEN Len(trim(row.right.lineNumber)) ELSE 0
         IN Max(maxDigits(rs, k - 1), Max(leftDigits, rightDigits))

\* new SplitDiffComponent(theme, rows, maxRows, language): its readonly fields.
SplitDiffComponent(theme, rs, maxRows, language) ==
    [theme |-> theme, rows |-> rs, maxRows |-> maxRows, language |-> language,
     lineNumberWidth |-> maxDigits(rs, Len(rs)),
     inlineHighlights |-> [i \in 1..Len(rs) |-> rowInlineHighlights(rs[i])],
     palette |-> resolveDiffPalette(theme),
     containerBgAnsi |-> themeBgAnsi(theme, "toolSuccessBg")]

(***************************************************************************)
(* renderResult and the functions it calls                                 *)
(***************************************************************************)

MAX_SPLIT_DIFF_CHARS == 120000
MAX_SPLIT_DIFF_LINES == 2000
MAX_RENDER_PATH_CHARS == 260
MAX_RENDER_MESSAGE_CHARS == 600

\* firstText: the text of the first part of type "text" whose text is a string.
firstText(content) ==
    LET hits == {k \in 1..Len(content) : content[k].type = "text" /\ content[k].text # Undefined}
    IN IF hits = {} THEN <<>> ELSE content[Least(hits)].text

truncateDisplayText(value, maxChars) ==
    IF maxChars <= 0 THEN <<>>
    ELSE IF Len(value) <= maxChars THEN value
    ELSE IF maxChars = 1 THEN <<ELLIPSIS>>
    ELSE Append(SubSeq(value, 1, maxChars - 1), ELLIPSIS)

\* One step of .replace(/\s+/g, " "): a run of white space becomes one space.
collapseStep(st, i) ==
    IF IsSpace(st.text[i])
    THEN (IF i > 1 /\ IsSpace(st.text[i - 1]) THEN st ELSE [st EXCEPT !.out = Append(@, " ")])
    ELSE [st EXCEPT !.out = Append(@, st.text[i])]

breakToSpace(c) == IF c \in {CR, LF} THEN <<" ">> ELSE <<c>>

\* sanitizeDisplayText of a string.
sanitizeDisplayText(value, maxChars) ==
    LET withoutAnsi == stripAnsi(value)
        normalizedBreaks == concatMap(breakToSpace, withoutAnsi, 1, Len(withoutAnsi))
        single == sanitizeSingleLineText(normalizedBreaks)
        collapsed == iterate(collapseStep, [text |-> single, out |-> <<>>], 1, Len(single)).out
    IN truncateDisplayText(trim(collapsed), maxChars)

ReplacedTextIn == <<"S", "u", "c", "c", "e", "s", "s", "f", "u", "l", "l", "y", " ", "r", "e", "p", "l", "a", "c", "e", "d", " ", "t", "e", "x", "t", " ", "i", "n", " ">>

\* extractEditedPath: the capture of /Successfully replaced text in (.+)\.$/, or
\* Undefined.
extractEditedPath(message) ==
    LET n == Len(ReplacedTextIn)
        hits == {p \in 1..Len(message) :
                    /\ StartsWithAt(message, p, ReplacedTextIn)
                    /\ p + n + 1 <= Len(message)
                    /\ message[Len(message)] = "."
                    /\ \A k \in (p + n)..(Len(message) - 1) : ~IsLineTerminator(message[k])}
    IN IF hits = {} THEN Undefined
       ELSE SubSeq(message, Least(hits) + n, Len(message) - 1)

\* getLanguageFromPath of the host: the language of the file extension, None when
\* the extension is unknown.
getLanguageFromPath(path) ==
    IF Len(path) >= 3 /\ SubSeq(path, Len(path) - 2, Len(path)) = <<".", "t", "s">>
    THEN Some(<<"t", "y", "p", "e", "s", "c", "r", "i", "p", "t">>)
    ELSE None

startsWith(line, lit) == StartsWithAt(line, 1, lit)

countDiffStep(st, i) ==
    LET line == st.lines[i]
    IN IF startsWith(line, <<"+", "+", "+">>) \/ startsWith(line, <<"-", "-", "-">>) THEN st
       ELSE IF startsWith(line, <<"+">>) THEN [st EXCEPT !.additions = @ + 1]
       ELSE IF startsWith(line, <<"-">>) THEN [st EXCEPT !.removals = @ + 1]
       ELSE st

countDiffStats(text) ==
    LET ls == splitLines(text)
        final == iterate(countDiffStep, [lines |-> ls, additions |-> 0, removals |-> 0], 1, Len(ls))
    IN [additions |-> final.additions, removals |-> final.removals]

\* renderDiffMeter with its default width of 20; Math.round(x) is floor(x + 1/2).
renderDiffMeter(theme, additions, removals) ==
    LET width == 20
        total == additions + removals
        addBlocks == (2 * additions * width + total) \div (2 * total)
        removeBlocks == Max(0, width - addBlocks)
        addBar == IF addBlocks > 0 THEN themeFg(theme, "toolDiffAdded", repeat(BLOCK, addBlocks))
                  ELSE <<>>
        removeBar == IF removeBlocks > 0
                     THEN themeFg(theme, "toolDiffRemoved", repeat(BLOCK, removeBlocks))
                     ELSE <<>>
    IN IF total <= 0 THEN <<>>
       ELSE themeFg(theme, "dim", <<"[">>) \o addBar \o removeBar \o themeFg(theme, "dim", <<"]">>)

\* Number of line feeds in value[lo..hi].
RECURSIVE countLineFeeds(_, _, _)
countLineFeeds(value, lo, hi) ==
    IF lo > hi THEN 0
    ELSE IF lo = hi THEN (IF value[lo] = LF THEN 1 ELSE 0)
    ELSE LET mid == (lo + hi) \div 2
         IN countLineFeeds(value, lo, mid) + countLineFeeds(value, mid + 1, hi)

\* countLinesWithinLimit: the loop stops at the line feed that takes lineCount over
\* the limit.
countLinesWithinLimit(value, limit) ==
    LET total == 1 + countLineFeeds(value, 1, Len(value))
    IN IF total > limit /\ total > 1
       THEN [lineCount |-> Max(limit + 1, 2), exceeded |-> TRUE]
       ELSE [lineCount |-> total, exceeded |-> FALSE]

\* n.toLocaleString() with groups of three digits separated by commas.
RECURSIVE toLocaleString(_)
toLocaleString(n) ==
    IF n < 1000 THEN numberToString(n)
    ELSE toLocaleString(n \div 1000) \o <<",">>
             \o padStartZero(numberToString(n % 1000))

\* A variant that only looks at the number of characters.
isDiffTooLargeForSplitCharsOnly(text) ==
    IF Len(text) > MAX_SPLIT_DIFF_CHARS
    THEN [tooLarge |-> TRUE,
          reason |-> <<"d", "i", "f", "f", " ", "s", "i", "z", "e", " ">> \o toLocaleString(Len(text))
                         \o <<" ", "c", "h", "a", "r", "s", " ", "e", "x", "c", "e", "e", "d", "s", " ", "l", "i", "m", "i", "t", " ">> \o toLocaleString(MAX_SPLIT_DIFF_CHARS)]
    ELSE [tooLarge |-> FALSE, reason |-> Undefined]

isDiffTooLargeForSplit(text) ==
    IF Len(text) > MAX_SPLIT_DIFF_CHARS
    THEN [tooLarge |-> TRUE,
          reason |-> <<"d", "i", "f", "f", " ", "s", "i", "z", "e", " ">> \o toLocaleString(Len(text))
                         \o <<" ", "c", "h", "a", "r", "s", " ", "e", "x", "c", "e", "e", "d", "s", " ", "l", "i", "m", "i", "t", " ">> \o toLocaleString(MAX_SPLIT_DIFF_CHARS)]
    ELSE IF countLinesWithinLimit(text, MAX_SPLIT_DIFF_LINES).exceeded
    THEN [tooLarge |-> TRUE,
          reason |-> <<"d", "i", "f", "f", " ", "h", "a", "s", " ", "m", "o", "r", "e", " ", "t", "h", "a", "n", " ">> \o toLocaleString(MAX_SPLIT_DIFF_LINES) \o <<" ", "l", "i", "n", "e", "s">>]
    ELSE [tooLarge |-> FALSE, reason |-> Undefined]

toLower(c) ==
    CASE c = "E" -> "e" [] c = "R" -> "r" [] c = "O" -> "o" [] OTHER -> c

\* /^error[:\s]/i.test(text)
isErrorMessage(text) ==
    /\ Len(text) >= 6
    /\ [k \in 1..5 |-> toLower(text[k])] = <<"e", "r", "r", "o", "r">>
    /\ (text[6] = ":" \/ IsSpace(text[6]))

\* new Text(text, 0, 0) of the host, which the model does not look into.
Text(text) == [kind |-> "text", text |-> text]

SkippedLabel == <<"S", "p", "l", "i", "t", " ", "v", "i", "e", "w", " ", "s", "k", "i", "p", "p", "e", "d", ":">>

\* The summary line of a result that has a diff.
summaryOf(theme, text) ==
    LET stats == countDiffStats(text)
        meter == renderDiffMeter(theme, stats.additions, stats.removals)
    IN themeFg(theme, "dim", <<ARROW>>) \o <<" ">> \o themeFg(theme, "muted", <<"d", "i", "f", "f">>)
           \o <<" ">> \o themeFg(theme, "toolDiffAdded", <<"+">> \o numberToString(stats.additions))
           \o <<" ">> \o themeFg(theme, "toolDiffRemoved", <<"-">> \o numberToString(stats.removals))
           \o <<" ">> \o themeFg(theme, "muted", <<"s", "p", "l", "i", "t">>)
           \o (IF Len(meter) > 0 THEN <<" ">> \o meter ELSE <<>>)

\* A return of renderResult before the split view is built.
Returned(component) == [view |-> component, built |-> FALSE, constructed |-> FALSE, split |-> None]

\* value || fallback, for a string value.
orText(value, fallback) == IF Len(value) > 0 THEN value ELSE fallback

\* sourcePath ? sanitizeDisplayText(sourcePath, MAX_RENDER_PATH_CHARS) : undefined
safePathOf(sourcePath) ==
    IF sourcePath # Undefined /\ Len(sourcePath) > 0
    THEN sanitizeDisplayText(sourcePath, MAX_RENDER_PATH_CHARS)
    ELSE Undefined

\* safeSourcePath ? getLanguageFromPath(safeSourcePath) : undefined
languageOf(safeSourcePath) ==
    IF safeSourcePath # Undefined /\ Len(safeSourcePath) > 0
    THEN getLanguageFromPath(safeSourcePath)
    ELSE None

\* splitBudget.reason ?? "diff exceeded split render budget"
noteOf(splitBudget) ==
    IF splitBudget.reason # Undefined THEN splitBudget.reason
    ELSE <<"d", "i", "f", "f", " ", "e", "x", "c", "e", "e", "d", "e", "d", " ", "s", "p", "l", "i", "t", " ", "r", "e", "n", "d", "e", "r", " ", "b", "u", "d", "g", "e", "t">>

\* The size guard of renderResult and what follows it, given the summary line and
\* the split budget.
splitOrSkipped(theme, text, expanded, language, summary, splitBudget) ==
    IF splitBudget.tooLarge
    THEN Returned(Text(summary \o <<LF>> \o themeFg(theme, "warning", SkippedLabel)
                           \o <<" ">> \o themeFg(theme, "muted", noteOf(splitBudget))))
    ELSE [view |-> [kind |-> "split", summary |-> summary],
          built |-> TRUE, constructed |-> TRUE,
          split |-> Some(SplitDiffComponent(theme, buildSplitRows(text),
                                            IF expanded THEN 160 ELSE 36, language))]

\* renderResult after firstText, given the message it returned.
resultOfMessage(toolResult, expanded, theme, rawMessage) ==
    IF Len(rawMessage) > 0 /\ isErrorMessage(trim(rawMessage))
    THEN Returned(Text(themeFg(theme, "error",
                               orText(sanitizeDisplayText(rawMessage, MAX_RENDER_MESSAGE_CHARS),
                                      <<"E", "r", "r", "o", "r">>))))
    ELSE IF toolResult.details = None \/ toolResult.details[1].diff = Undefined
             \/ Len(toolResult.details[1].diff) = 0
    THEN Returned(Text(themeFg(theme, "dim", <<ARROW>>) \o <<" ">>
                           \o themeFg(theme, "muted", <<"E", "d", "i", "t", " ", "a", "p", "p", "l", "i", "e", "d">>)))
    ELSE splitOrSkipped(theme, toolResult.details[1].diff, expanded,
                        languageOf(safePathOf(extractEditedPath(rawMessage))),
                        summaryOf(theme, toolResult.details[1].diff),
                        isDiffTooLargeForSplit(toolResult.details[1].diff))

\* renderResult(result, { expanded, isPartial }, theme): what it returns, and whether
\* it called buildSplitRows and the constructor of SplitDiffComponent.
renderResult(toolResult, expanded, isPartial, theme) ==
    IF isPartial
    THEN Returned(Text(themeFg(theme, "dim", <<ARROW>>) \o <<" ">>
                           \o themeFg(theme, "muted", <<"A", "p", "p", "l", "y", "i", "n", "g", " ", "e", "d", "i", "t", ".", ".", ".">>)))
    ELSE resultOfMessage(toolResult, expanded, theme, firstText(toolResult.content))

(***************************************************************************)
(* Specification SpecEdit: the host renders the result of one edit: it     *)
(* calls renderResult, then render and invalidate on the view it returned. *)
(***************************************************************************)

fg256(n) == <<ESC, "[", "3", "8", ";", "5", ";">> \o numberToString(n) \o <<"m">>
bg256(n) == <<ESC, "[", "4", "8", ";", "5", ";">> \o numberToString(n) \o <<"m">>

DarkTheme ==
    [fg |-> [dim |-> fg256(8), muted |-> fg256(7), borderMuted |-> fg256(8),
             toolDiffAdded |-> fg256(2), toolDiffRemoved |-> fg256(1),
             warning |-> fg256(3), error |-> fg256(9)],
     bg |-> [toolSuccessBg |-> bg256(22), toolPendingBg |-> bg256(17)]]

Themes == {DarkTheme}

ToolResult(message, details) ==
    [content |-> <<[type |-> "text", text |-> message]>>, details |-> details]

ReplacedInTs == <<"S", "u", "c", "c", "e", "s", "s", "f", "u", "l", "l", "y", " ", "r", "e", "p", "l", "a", "c", "e", "d", " ", "t", "e", "x", "t", " ", "i", "n", " ", "a", ".", "t", "s", ".">>
DoneMessage == <<"D", "o", "n", "e", ".">>
ErrorMessage == <<"E", "r", "r", "o", "r", ":", " ", "n", "o", " ", "m", "a", "t", "c", "h">>

\* A context line, a changed pair and an added empty line, in a TypeScript file.
SmallDiff == <<" ", "1", " ", "l", "e", "t", " ", "x", ";", LF, "-", "2", " ", "c", "o", "n", "s", "t", " ", "a", " ", "=", " ", "1", ";", LF, "+", "2", " ", "c", "o", "n", "s", "t", " ", "b", " ", "=", " ", "2", "2", ";", LF, "+", "3", " ">>

\* A changed pair whose lines are wider than a narrow column, in a file of no
\* known language.
WrapDiff == <<"-", "1", " ", "a", "a", "a", "a", " ", "b", "b", "b", "b", " ", "c", "c", "c", "c", " ", "d", "d", "d", "d", " ", "e", "e", "e", "e", LF, "+", "1", " ", "a", "a", "a", "a", " ", "b", "b", "X", "b", " ", "c", "c", "c", "c", " ", "d", "d", "d", "d", " ", "e", "e", "e", "e">>

\* One character more than the limit, one line more than the limit, and as many
\* lines as the limit allows.
TooManyChars == repeat("a", MAX_SPLIT_DIFF_CHARS + 1)
TooManyLines == repeat(LF, MAX_SPLIT_DIFF_LINES)
MostLines == repeat(LF, MAX_SPLIT_DIFF_LINES - 1)

ToolResults ==
    {ToolResult(ReplacedInTs, Some([diff |-> SmallDiff])),
     ToolResult(DoneMessage, Some([diff |-> WrapDiff])),
     ToolResult(ErrorMessage, None),
     ToolResult(DoneMessage, None),
     ToolResult(ReplacedInTs, Some([diff |-> TooManyChars])),
     ToolResult(ReplacedInTs, Some([diff |-> TooManyLines])),
     ToolResult(ReplacedInTs, Some([diff |-> MostLines]))}

\* The ways the highlighter behaves while the host renders.
RenderHighlighters == {"throws", "keyword", "bold"}

\* The widths the host renders at; the view hands max(20, width - 1) to the component.
RenderWidths == {30, 61}

Call(op, partial, width, out, fromCache, highlighter) ==
    [op |-> op, partial |-> partial, width |-> width, out |-> out, fromCache |-> fromCache,
     highlighter |-> highlighter]

InitEdit ==
    /\ HarnessIdle
    /\ BuilderIdle
    /\ result \in ToolResults
    /\ hostTheme \in Themes
    /\ view = [kind |-> "none"]
    /\ split = None
    /\ cacheWidth = None
    /\ cacheLines = None
    /\ highlightCache = <<>>
    /\ built = FALSE
    /\ constructed = FALSE
    /\ lastCall = Call("none", FALSE, 0, <<>>, FALSE, "none")
    /\ editToolCache = <<>>

\* The host keeps what renderResult returned.
KeepReturned(returned, isPartial) ==
    /\ view' = returned.view
    /\ split' = returned.split
    /\ cacheWidth' = None
    /\ cacheLines' = None
    /\ highlightCache' = <<>>
    /\ built' = (built \/ returned.built)
    /\ constructed' = (constructed \/ returned.constructed)
    /\ lastCall' = Call("renderResult", isPartial, 0, <<>>, FALSE, "none")

\* The host calls renderResult(result, { expanded, isPartial }, theme).
RenderResult ==
    /\ \E expanded \in BOOLEAN, isPartial \in BOOLEAN :
           KeepReturned(renderResult(result, expanded, isPartial, hostTheme), isPartial)
    /\ UNCHANGED <<result, hostTheme, editToolCache, harnessVars, builderVars>>

\* The component keeps the fields render left and the host the lines it returned.
KeepRendered(rendered, safeWidth, behaviour) ==
    /\ cacheWidth' = rendered.cacheWidth
    /\ cacheLines' = rendered.cacheLines
    /\ highlightCache' = rendered.highlightCache
    /\ lastCall' = Call("render", FALSE, safeWidth, rendered.lines, rendered.fromCache,
                     behaviour)

\* The host calls render(width) of the view of a split diff, which calls
\* split.render(Math.max(20, width - 1)); the highlighter behaves in one of its ways
\* during the call.
Render ==
    /\ split # None
    /\ \E width \in RenderWidths, behaviour \in RenderHighlighters :
           KeepRendered(render(split[1], cacheWidth, cacheLines, highlightCache, behaviour,
                               Max(20, width - 1)),
                        Max(20, width - 1), behaviour)
    /\ UNCHANGED <<result, hostTheme, view, split, built, constructed, editToolCache,
                   harnessVars, builderVars>>

\* A variant of invalidate() that leaves the highlight cache as it is.
InvalidateKeepsHighlights ==
    /\ split # None
    /\ cacheWidth' = None
    /\ cacheLines' = None
    /\ highlightCache' = highlightCache
    /\ lastCall' = Call("invalidate", FALSE, 0, <<>>, FALSE, "none")
    /\ UNCHANGED <<result, hostTheme, view, split, built, constructed, editToolCache,
                   harnessVars, builderVars>>

\* The host calls invalidate() of the view of a split diff.
Invalidate ==
    /\ split # None
    /\ cacheWidth' = None
    /\ cacheLines' = None
    /\ highlightCache' = <<>>
    /\ lastCall' = Call("invalidate", FALSE, 0, <<>>, FALSE, "none")
    /\ UNCHANGED <<result, hostTheme, view, split, built, constructed, editToolCache,
                   harnessVars, builderVars>>

NextEdit == RenderResult \/ Render \/ Invalidate

SpecEdit == InitEdit /\ [][NextEdit]_vars

\* C1: two consecutive calls render(w) of a component, with no invalidate() and no
\* other call in between, return the same lines in the same order, and the second
\* call is answered from the cache kept for that width.
C1_SecondRender ==
    (lastCall.op = "render" /\ lastCall'.op = "render" /\ lastCall'.width = lastCall.width)
        => (lastCall'.out = lastCall.out /\ lastCall'.fromCache)

C1_RenderIdempotent == [][C1_SecondRender]_vars

\* A second render at one width returned lines from the cache: rows with a changed
\* pair, inline spans and a filled highlight cache were rendered.
C1_Witness ==
    /\ lastCall.op = "render"
    /\ lastCall.fromCache
    /\ Len(lastCall.out) > 3
    /\ split # None
    /\ \E i \in 1..Len(split[1].rows) :
           split[1].rows[i].kind = "changed" /\ DOMAIN split[1].inlineHighlights[i] # {}
    /\ Len(highlightCache) > 0

\* The text s occurs in the text t.
Contains(t, s) == \E p \in 1..(Len(t) - Len(s) + 1) : SubSeq(t, p, p + Len(s) - 1) = s

HasDiff ==
    /\ result.details # None
    /\ result.details[1].diff # Undefined
    /\ Len(result.details[1].diff) > 0

\* The diff has more than MAX_SPLIT_DIFF_CHARS characters, or more than
\* MAX_SPLIT_DIFF_LINES lines, where a text has one line more than it has line feeds.
DiffIsTooLarge ==
    LET text == result.details[1].diff
    IN \/ Len(text) > MAX_SPLIT_DIFF_CHARS
       \/ Cardinality({i \in 1..Len(text) : text[i] = LF}) + 1 > MAX_SPLIT_DIFF_LINES

\* The view is the text "Split view skipped:" followed by a reason.
ViewIsSkipped ==
    /\ view.kind = "text"
    /\ \E p \in 1..Len(view.text) :
           /\ StartsWithAt(view.text, p, SkippedLabel)
           /\ Len(stripAnsi(SubSeq(view.text, p + Len(SkippedLabel), Len(view.text)))) > 1

\* renderResult ran to its size guard: the call was not partial and the message of
\* the result is not an error.
ReachedSizeGuard ==
    /\ lastCall.op = "renderResult"
    /\ ~lastCall.partial
    /\ ~isErrorMessage(trim(firstText(result.content)))

PlainLines(comp, width) == renderLines([comp EXCEPT !.language = None], <<>>, "throws", width).lines

\* A call of render that built its lines while the highlighter threw on every segment.
ThrowingRender(call) == call.op = "render" /\ call.highlighter = "throws" /\ ~call.fromCache

\* Every entry of the highlight cache that is not in the cache before holds the
\* sanitized plain text of its segment.
NewEntriesPlain(before, after) ==
    \A k \in 1..Len(after) :
        (\A j \in 1..Len(before) : before[j] # after[k]) => after[k].value = after[k].key[2]

C13_Step ==
    ThrowingRender(lastCall') =>
        /\ Len(lastCall'.out) >= 2
        /\ \A k \in 1..Len(lastCall'.out) :
               \A i \in 1..Len(lastCall'.out[k]) : lastCall'.out[k][i] # Thrown[1]
        /\ NewEntriesPlain(highlightCache, highlightCache')
        /\ highlightCache = <<>> => lastCall'.out = PlainLines(split[1], lastCall'.width)

\* C13: when the highlighter throws for a segment, syntaxHighlight returns the
\* sanitized plain text of the segment, and render returns its lines: no exception
\* of the highlighter leaves render, whatever the calls before it did.
C13_HighlighterFailureIsPlain == [][C13_Step]_vars

\* render built the lines of a diff in a known language while the highlighter threw,
\* and the cache holds the plain text of its segments.
C13_Witness ==
    /\ ThrowingRender(lastCall)
    /\ split # None
    /\ split[1].language # None
    /\ Len(highlightCache) > 0
    /\ NewEntriesPlain(<<>>, highlightCache)
    /\ Len(lastCall.out) > 3

\* After invalidate() the component holds no cached width, no cached lines and no
\* highlighted text.
C15_Cleared ==
    lastCall.op = "invalidate" =>
        (cacheWidth = None /\ cacheLines = None /\ highlightCache = <<>>)

\* The render that follows invalidate() builds its lines, with the highlighter as it
\* behaves now.
C15_Step ==
    (lastCall.op = "invalidate" /\ lastCall'.op = "render") =>
        /\ ~lastCall'.fromCache
        /\ lastCall'.out
               = renderLines(split[1], <<>>, lastCall'.highlighter, lastCall'.width).lines
        /\ cacheWidth' = Some(lastCall'.width)
        /\ cacheLines' = Some(lastCall'.out)

\* C15: after invalidate() the row cache holds no width and no lines and the
\* highlight cache is empty, and the next render(w), for every w, builds every row
\* again instead of returning the list cached before.
C15_InvalidateClears == []C15_Cleared /\ [][C15_Step]_vars

\* invalidate() was called on the view of a split diff.
C15_Witness ==
    /\ lastCall.op = "invalidate"
    /\ split # None
    /\ Len(split[1].rows) > 0
    /\ cacheWidth = None
    /\ cacheLines = None
    /\ highlightCache = <<>>

(***************************************************************************)
(* The two bounded caches: lookups of highlighted lines and of edit tools  *)
(***************************************************************************)

MAX_EDIT_TOOL_CACHE_SIZE == 24

\* createEditTool(cwd) of the host: an edit tool bound to the directory.
createEditTool(cwd) == [name |-> "edit", cwd |-> cwd]

\* A variant that keeps the cache in order of use: a hit moves the entry to the end.
getEditToolRecentlyUsed(cache, cwd) ==
    IF mapHas(cache, cwd)
    THEN [tool |-> mapGet(cache, cwd),
          cache |-> Append(SelectSeq(cache, LAMBDA e : e.key # cwd),
                           [key |-> cwd, value |-> mapGet(cache, cwd)])]
    ELSE [tool |-> createEditTool(cwd),
          cache |-> mapSet(IF Len(cache) >= MAX_EDIT_TOOL_CACHE_SIZE THEN Tail(cache) ELSE cache,
                           cwd, createEditTool(cwd))]

\* getEditTool(cwd): the tool it returns and the editToolCache it leaves.
getEditTool(cache, cwd) ==
    IF mapHas(cache, cwd)
    THEN [tool |-> mapGet(cache, cwd), cache |-> cache]
    ELSE [tool |-> createEditTool(cwd),
          cache |-> mapSet(IF Len(cache) >= MAX_EDIT_TOOL_CACHE_SIZE THEN Tail(cache) ELSE cache,
                           cwd, createEditTool(cwd))]

\* How many keys beyond the capacity of a cache the lookups bring, and how many
\* times a run looks up a key that was looked up before.
ExtraKeys == 3
MaxRepeats == 2

\* The k-th line and the k-th directory the lookups bring, k = 1, 2, ...
lineOf(k) == numberToString(k)
cwdOf(k) == <<"/">> \o numberToString(k)
EmptyLine16 == <<>>

CacheLanguage == Some(<<"t", "s">>)
CacheComponent == SplitDiffComponent(DarkTheme, <<>>, 0, CacheLanguage)

\* History of a lookup: the function, its argument, what it returned, whether the
\* key was in the cache and whether the cache was full when it was called, how many
\* of the numbered keys have been looked up so far, how many had been when the
\* empty line was last inserted (-1 when it never was), and how many lookups were
\* of a key looked up before.
Lookup(op, key, out, wasPresent, wasFull, fresh, emptyAt, repeats) ==
    [op |-> op, key |-> key, out |-> out, wasPresent |-> wasPresent, wasFull |-> wasFull,
     fresh |-> fresh, emptyAt |-> emptyAt, repeats |-> repeats]

\* A run looks up either highlighted lines or edit tools: the caches share nothing.
InitCache ==
    /\ fn = "none" /\ res = <<>>
    /\ arg \in {"highlightCache", "editToolCache"}
    /\ BuilderIdle
    /\ result = <<>> /\ hostTheme = <<>> /\ view = <<>> /\ split = <<>> /\ cacheWidth = <<>>
    /\ cacheLines = <<>> /\ built = FALSE /\ constructed = FALSE
    /\ highlightCache = <<>>
    /\ editToolCache = <<>>
    /\ lastCall = Lookup("none", <<>>, <<>>, FALSE, FALSE, 0, -1, 0)

cacheFrame ==
    <<fn, arg, res, builderVars, result, hostTheme, view, split, cacheWidth, cacheLines, built,
      constructed>>

\* The component keeps the cache syntaxHighlight left.
KeepHighlighted(out, line, wasPresent, fresh, emptyAt) ==
    /\ highlightCache' = out.cache
    /\ lastCall' = Lookup("syntaxHighlight", line, out.text, wasPresent,
                          Len(highlightCache) >= MAX_HIGHLIGHT_CACHE_ENTRIES, fresh, emptyAt,
                          IF fresh = lastCall.fresh
                                 /\ (line # EmptyLine16 \/ lastCall.emptyAt >= 0)
                          THEN lastCall.repeats + 1 ELSE lastCall.repeats)
    /\ UNCHANGED <<editToolCache, cacheFrame>>

\* syntaxHighlight(line) on a component with a language, for the highlighter that
\* returns no line.
SyntaxHighlight(line, fresh) ==
    KeepHighlighted(syntaxHighlight(CacheComponent, highlightCache, "nothing", line), line,
                    mapHas(highlightCache, <<CacheLanguage, line>>), fresh,
                    IF line = EmptyLine16 /\ ~mapHas(highlightCache, <<CacheLanguage, line>>)
                    THEN fresh ELSE lastCall.emptyAt)

\* A line that was never highlighted before.
HighlightNew ==
    /\ arg = "highlightCache"
    /\ lastCall.fresh < MAX_HIGHLIGHT_CACHE_ENTRIES + ExtraKeys
    /\ SyntaxHighlight(lineOf(lastCall.fresh + 1), lastCall.fresh + 1)

\* The line of the oldest or of the newest entry of the cache, once more.
HighlightAgain ==
    /\ arg = "highlightCache"
    /\ Len(highlightCache) > 0
    /\ lastCall.repeats < MaxRepeats
    /\ \E k \in {1, Len(highlightCache)} :
           SyntaxHighlight(highlightCache[k].key[2], lastCall.fresh)

\* The empty line, whose highlighted text is the empty string; it is looked up
\* once the cache is about to be full.
HighlightEmpty ==
    /\ arg = "highlightCache"
    /\ lastCall.fresh >= MAX_HIGHLIGHT_CACHE_ENTRIES - 1
    /\ lastCall.repeats < MaxRepeats
    /\ SyntaxHighlight(EmptyLine16, lastCall.fresh)

\* The module keeps the cache getEditTool left.
KeepTool(out, cwd, fresh) ==
    /\ editToolCache' = out.cache
    /\ lastCall' = Lookup("getEditTool", cwd, out.tool, mapHas(editToolCache, cwd),
                          Len(editToolCache) >= MAX_EDIT_TOOL_CACHE_SIZE, fresh, -1,
                          IF fresh = lastCall.fresh THEN lastCall.repeats + 1
                          ELSE lastCall.repeats)
    /\ UNCHANGED <<highlightCache, cacheFrame>>

\* getEditTool(cwd) for a directory that was never asked for before.
GetEditToolNew ==
    /\ arg = "editToolCache"
    /\ lastCall.fresh < MAX_EDIT_TOOL_CACHE_SIZE + ExtraKeys
    /\ KeepTool(getEditTool(editToolCache, cwdOf(lastCall.fresh + 1)),
                cwdOf(lastCall.fresh + 1), lastCall.fresh + 1)

\* getEditTool(cwd) for the directory of the oldest or of the newest entry.
GetEditToolAgain ==
    /\ arg = "editToolCache"
    /\ Len(editToolCache) > 0
    /\ lastCall.repeats < MaxRepeats
    /\ \E k \in {1, Len(editToolCache)} :
           KeepTool(getEditTool(editToolCache, editToolCache[k].key), editToolCache[k].key,
                    lastCall.fresh)

NextCache ==
    HighlightNew \/ HighlightAgain \/ HighlightEmpty \/ GetEditToolNew \/ GetEditToolAgain

SpecCache == InitCache /\ [][NextCache]_vars

\* When a key entered the cache: the numbered keys enter in the order of their
\* numbers, the empty line after the numbered key that was the last at that time.
lineInsertedAt(key, emptyAt) ==
    IF key[2] = EmptyLine16 THEN 2 * emptyAt + 1 ELSE 2 * digitsToNumber(key[2])
cwdInsertedAt(cwd) == digitsToNumber(Tail(cwd))

mapKeys(map) == {map[k].key : k \in 1..Len(map)}

\* The key that entered the cache first, of the keys it holds.
EarliestLine(cache, emptyAt) ==
    CHOOSE key \in mapKeys(cache) :
        \A other \in mapKeys(cache) :
            lineInsertedAt(key, emptyAt) <= lineInsertedAt(other, emptyAt)
EarliestCwd(cache) ==
    CHOOSE cwd \in mapKeys(cache) :
        \A other \in mapKeys(cache) : cwdInsertedAt(cwd) <= cwdInsertedAt(other)

C16_Bounded ==
    /\ Len(highlightCache) <= MAX_HIGHLIGHT_CACHE_ENTRIES
    /\ Len(editToolCache) <= MAX_EDIT_TOOL_CACHE_SIZE

\* A lookup that brings a new key to a full cache evicts the key that entered first,
\* and nothing else.
C16_HighlightStep ==
    (/\ lastCall'.op = "syntaxHighlight"
     /\ Len(highlightCache) = MAX_HIGHLIGHT_CACHE_ENTRIES
     /\ ~mapHas(highlightCache, <<CacheLanguage, lastCall'.key>>)) =>
        mapKeys(highlightCache')
            = (mapKeys(highlightCache) \ {EarliestLine(highlightCache, lastCall.emptyAt)})
                  \cup {<<CacheLanguage, lastCall'.key>>}

C16_ToolStep ==
    (/\ lastCall'.op = "getEditTool"
     /\ Len(editToolCache) = MAX_EDIT_TOOL_CACHE_SIZE
     /\ ~mapHas(editToolCache, lastCall'.key)) =>
        mapKeys(editToolCache')
            = (mapKeys(editToolCache) \ {EarliestCwd(editToolCache)}) \cup {lastCall'.key}

\* C16: after any sequence of lookups the highlight cache holds at most
\* MAX_HIGHLIGHT_CACHE_ENTRIES (2048) entries and the edit-tool cache at most
\* MAX_EDIT_TOOL_CACHE_SIZE (24); a new key inserted into a full cache evicts the
\* entry that was inserted earliest, whatever was looked up since.
C16_BoundedOldestFirst ==
    []C16_Bounded /\ [][C16_HighlightStep /\ C16_ToolStep]_vars

\* A new line was highlighted when the cache was full, after lookups of lines it held.
C16_Witness ==
    /\ lastCall.op = "syntaxHighlight"
    /\ lastCall.wasFull
    /\ ~lastCall.wasPresent
    /\ lastCall.fresh > MAX_HIGHLIGHT_CACHE_ENTRIES + 1
    /\ Len(highlightCache) = MAX_HIGHLIGHT_CACHE_ENTRIES
    /\ mapHas(highlightCache, <<CacheLanguage, lastCall.key>>)
    /\ ~mapHas(highlightCache, <<CacheLanguage, lineOf(1)>>)

(***************************************************************************)
(* src/bootstrap.ts: merging the settings overlay into the local settings  *)
(***************************************************************************)

\* JSON values. An object is the sequence of its [key, value] entries in the order
\* of its keys; a number of a JSON text is its literal until JSON.parse reads it.
JNull == [type |-> "null"]
JString(s) == [type |-> "string", s |-> s]
JLiteral(literal) == [type |-> "literal", literal |-> literal]
JNumber(n) == [type |-> "number", n |-> n]
JInfinity == [type |-> "infinity"]
JArray(items) == [type |-> "array", items |-> items]
JObject(entries) == [type |-> "object", entries |-> entries]
Entry(key, value) == [key |-> key, value |-> value]

RECURSIVE Pow10(_)
Pow10(e) == IF e = 0 THEN 1 ELSE 10 * Pow10(e - 1)

\* The double of a number literal, digits with an optional exponent: a literal
\* beyond the largest double, which is below 10^309, reads as Infinity.
numberOfLiteral(literal) ==
    LET mantissa == SubSeq(literal, 1, RunLength(literal, 1, LAMBDA c : c \in Digits))
        exponent == SubSeq(literal, Len(mantissa) + 2, Len(literal))
    IN IF Len(mantissa) = Len(literal) THEN JNumber(digitsToNumber(mantissa))
       ELSE IF digitsToNumber(exponent) > 308 THEN JInfinity
       ELSE JNumber(digitsToNumber(mantissa) * Pow10(digitsToNumber(exponent)))

\* JSON.parse(text), for the text of a JSON value.
RECURSIVE jsonParse(_)
jsonParse(text) ==
    CASE text.type = "literal" -> numberOfLiteral(text.literal)
      [] text.type = "array" ->
            JArray([i \in 1..Len(text.items) |-> jsonParse(text.items[i])])
      [] text.type = "object" ->
            JObject([i \in 1..Len(text.entries) |->
                        Entry(text.entries[i].key, jsonParse(text.entries[i].value))])
      [] OTHER -> text

\* JSON.stringify(value, null, 2): a number that is not finite is written as null.
RECURSIVE jsonStringify(_)
jsonStringify(value) ==
    CASE value.type = "number" -> JLiteral(numberToString(value.n))
      [] value.type = "infinity" -> JNull
      [] value.type = "array" ->
            JArray([i \in 1..Len(value.items) |-> jsonStringify(value.items[i])])
      [] value.type = "object" ->
            JObject([i \in 1..Len(value.entries) |->
                        Entry(value.entries[i].key, jsonStringify(value.entries[i].value))])
      [] OTHER -> value

isObject(value) == value.type = "object"

mapDelete(map, key) == SelectSeq(map, LAMBDA e : e.key # key)

\* deepMerge(target, source) on the entries of the two objects; the loop over
\* Object.keys(source) has handled the first k keys.
RECURSIVE deepMergeLoop(_, _, _)
deepMergeLoop(target, source, k) ==
    IF k = 0 THEN target
    ELSE LET merged == deepMergeLoop(target, source, k - 1)
             key == source[k].key
             sourceValue == source[k].value
         IN IF isObject(sourceValue) /\ mapHas(merged, key) /\ isObject(mapGet(merged, key))
            THEN mapSet(merged, key,
                        JObject(deepMergeLoop(mapGet(merged, key).entries, sourceValue.entries,
                                              Len(sourceValue.entries))))
            ELSE mapSet(merged, key, sourceValue)

deepMerge(target, source) ==
    JObject(deepMergeLoop(target.entries, source.entries, Len(source.entries)))

\* A path of the file system: nothing, a regular file with its text, or a symbolic
\* link to a regular file with its text.
Absent == [kind |-> "absent"]
File(text) == [kind |-> "file", text |-> text]
Symlink(text) == [kind |-> "symlink", text |-> text]

existsSync(path) == path.kind # "absent"

\* The loop of mergeJsonOverlay over ownedKeys, after its first k keys.
RECURSIVE ownedLoop(_, _, _, _)
ownedLoop(merged, overlay, ownedKeys, k) ==
    IF k = 0 THEN merged
    ELSE IF mapHas(overlay, ownedKeys[k])
    THEN mapSet(ownedLoop(merged, overlay, ownedKeys, k - 1), ownedKeys[k],
                mapGet(overlay, ownedKeys[k]))
    ELSE mapDelete(ownedLoop(merged, overlay, ownedKeys, k - 1), ownedKeys[k])

\* A variant that reads through a symbolic link as through a regular file.
existingOfFollowingLinks(target) ==
    IF existsSync(target) THEN jsonParse(target.text) ELSE JObject(<<>>)

\* existing, as mergeJsonOverlay reads it from the target path.
existingOf(target) ==
    IF existsSync(target) /\ target.kind # "symlink" THEN jsonParse(target.text)
    ELSE JObject(<<>>)

\* What mergeJsonOverlay writes for the overlay it parsed.
mergedText(existing, overlay, ownedKeys) ==
    jsonStringify(JObject(ownedLoop(deepMerge(existing, overlay).entries, overlay.entries,
                                    ownedKeys, Len(ownedKeys))))

\* mergeJsonOverlay(overlayPath, targetPath, ownedKeys): the target path it leaves.
mergeJsonOverlay(overlayFile, targetFile, ownedKeys) ==
    IF ~existsSync(overlayFile) THEN targetFile
    ELSE File(mergedText(existingOf(targetFile), jsonParse(overlayFile.text), ownedKeys))

PI_SETTINGS_OWNED_KEYS == <<"theme", "packages", "compaction">>
OwnedKeySets == {<<>>, PI_SETTINGS_OWNED_KEYS}

\* The values of the settings the model draws from.
CompactionOn == JObject(<<Entry("enabled", JString("yes")), Entry("reserve", JLiteral(<<"7">>))>>)
CompactionOff == JObject(<<Entry("enabled", JString("no"))>>)
EditorLocal == JObject(<<Entry("tabs", JLiteral(<<"1", "e", "2">>))>>)
EditorOverlay == JObject(<<Entry("font", JString("mono"))>>)
Packages == JArray(<<JString("sub-bar")>>)
HugeNumber == JLiteral(<<"1", "e", "4", "0", "0">>)

OverlayTexts ==
    {JObject(<<Entry("theme", JString("dark")), Entry("compaction", CompactionOn)>>),
     JObject(<<Entry("theme", JString("dark")), Entry("packages", Packages)>>),
     JObject(<<Entry("compaction", CompactionOff), Entry("editor", EditorOverlay)>>),
     JObject(<<>>)}

LocalTexts ==
    {JObject(<<>>),
     JObject(<<Entry("model", JString("local"))>>),
     JObject(<<Entry("theme", JString("light")), Entry("model", JString("local"))>>),
     JObject(<<Entry("compaction", CompactionOff), Entry("editor", EditorLocal)>>),
     JObject(<<Entry("packages", JString("mine")), Entry("editor", EditorLocal),
               Entry("theme", JNull)>>),
     JObject(<<Entry("compaction", CompactionOn), Entry("limit", HugeNumber)>>),
     JObject(<<Entry("editor", JArray(<<JLiteral(<<"7">>)>>)), Entry("model", JNull)>>)}

OverlayFiles == {Absent} \cup {File(text) : text \in OverlayTexts}
TargetFiles == {Absent} \cup {File(text) : text \in LocalTexts}
                   \cup {Symlink(text) : text \in LocalTexts}

\* arg holds the overlay path and the owned keys of the call, res the target path
\* with what it was before the last call, fn the last function called.
InitMerge ==
    /\ fn = "none"
    /\ arg \in [overlay : OverlayFiles, ownedKeys : OwnedKeySets]
    /\ res \in {[target |-> target, before |-> target, written |-> FALSE] :
                    target \in TargetFiles}
    /\ BuilderIdle
    /\ EditIdle

\* bootstrap runs mergeJsonOverlay(overlayPath, targetPath, ownedKeys).
MergeJsonOverlay ==
    /\ fn' = "mergeJsonOverlay"
    /\ res' = [target |-> mergeJsonOverlay(arg.overlay, res.target, arg.ownedKeys),
               before |-> res.target,
               written |-> existsSync(arg.overlay)]
    /\ UNCHANGED <<arg, builderVars, editVars>>

\* The user edits the repository: the overlay becomes another one.
ChangeOverlay ==
    /\ fn = "mergeJsonOverlay"
    /\ fn' = "changeOverlay"
    /\ \E overlay \in OverlayFiles : arg' = [arg EXCEPT !.overlay = overlay]
    /\ UNCHANGED <<res, builderVars, editVars>>

NextMerge == MergeJsonOverlay \/ ChangeOverlay

SpecMerge == InitMerge /\ [][NextMerge]_vars

seqToSet(seq) == {seq[k] : k \in 1..Len(seq)}

\* The settings a path holds for a program that reads it.
settingsAt(path) == jsonParse(path.text).entries

\* The keys of the local settings that the call does not track.
UntrackedKeys(before, overlay, ownedKeys) ==
    mapKeys(settingsAt(before)) \ (seqToSet(ownedKeys) \cup mapKeys(jsonParse(overlay.text).entries))

UntrackedKept(before, after, overlay, ownedKeys) ==
    \A key \in UntrackedKeys(before, overlay, ownedKeys) :
        /\ mapHas(settingsAt(after), key)
        /\ mapGet(settingsAt(after), key) = mapGet(settingsAt(before), key)

OwnedFromOverlay(after, overlay, ownedKeys) ==
    \A key \in seqToSet(ownedKeys) :
        IF mapHas(jsonParse(overlay.text).entries, key)
        THEN /\ mapHas(settingsAt(after), key)
             /\ mapGet(settingsAt(after), key) = mapGet(jsonParse(overlay.text).entries, key)
        ELSE ~mapHas(settingsAt(after), key)

\* C18: mergeJsonOverlay preserves the local settings it does not track: every key
\* of the existing target settings file that is not an owned key and does not occur
\* in the overlay is in the file written back with its value unchanged, and each
\* owned key ends up equal to the overlay's value, or absent when the overlay does
\* not define it.
C18_UntrackedKeysKept ==
    (fn = "mergeJsonOverlay" /\ res.written) =>
        /\ existsSync(res.before) =>
               UntrackedKept(res.before, res.target, arg.overlay, arg.ownedKeys)
        /\ OwnedFromOverlay(res.target, arg.overlay, arg.ownedKeys)

\* What holds of every call: the owned keys come from the overlay, and the keys the
\* call does not track are kept when the target path is a regular file whose
\* numbers are finite doubles.
RECURSIVE FiniteNumbers(_)
FiniteNumbers(value) ==
    CASE value.type = "infinity" -> FALSE
      [] value.type = "array" -> \A i \in 1..Len(value.items) : FiniteNumbers(value.items[i])
      [] value.type = "object" ->
            \A i \in 1..Len(value.entries) : FiniteNumbers(value.entries[i].value)
      [] OTHER -> TRUE

C18_RegularFileKept ==
    (fn = "mergeJsonOverlay" /\ res.written) =>
        /\ (res.before.kind = "file" /\ FiniteNumbers(jsonParse(res.before.text))) =>
               UntrackedKept(res.before, res.target, arg.overlay, arg.ownedKeys)
        /\ OwnedFromOverlay(res.target, arg.overlay, arg.ownedKeys)

\* A merge wrote the target path that was a regular file with a key it does not track.
C18_RegularFileWitness ==
    /\ fn = "mergeJsonOverlay"
    /\ res.written
    /\ res.before.kind = "file"
    /\ UntrackedKeys(res.before, arg.overlay, arg.ownedKeys) # {}
    /\ Len(arg.ownedKeys) > 0

(***************************************************************************)
(* Specification SpecCells: formatCellLines on one cell of a one-row       *)
(* component, for rows of every kind, columns that wrap the line and       *)
(* columns that do not.                                                    *)
(***************************************************************************)

\* A theme whose colours are the 24-bit colours resolveDiffPalette falls back to.
FallbackTheme ==
    [fg |-> [dim |-> fg256(8), muted |-> fg256(7), borderMuted |-> fg256(8),
             toolDiffAdded |-> colour24("3", 88, 173, 88),
             toolDiffRemoved |-> colour24("3", 196, 98, 98)],
     bg |-> [toolSuccessBg |-> colour24("4", 32, 35, 42)]]

CellThemes == {DarkTheme, FallbackTheme}

DiffLineOf(number, text) == [lineNumber |-> number, line |-> text]

OldShort == DiffLineOf(<<"1">>, <<"l", "e", "t", " ", "a", " ", "=", " ", "1", ";">>)
NewShort == DiffLineOf(<<"1">>, <<"l", "e", "t", " ", "b", " ", "=", " ", "2", "2", ";">>)
OldLong == DiffLineOf(<<"7">>, <<"a", "a", "a", "a", " ", "b", "b", "b", "b", " ", "c", "c", "c", "c">>)
NewLong == DiffLineOf(<<"7">>, <<"a", "a", "a", "a", " ", "b", "b", "X", "X", " ", "Y", "Y", "c", "c">>)
OldBell == DiffLineOf(<<"2">>, <<"a", BEL, "b", "c", "d">>)
NewBell == DiffLineOf(<<"2">>, <<"a", BEL, "b", "c", "X">>)
EmptyDiffLine == DiffLineOf(<<"3">>, <<>>)

\* Rows as buildSplitRows builds them: a changed row has both sides, a removed row
\* the left one, an added row the right one, a context row the same text twice.
CellRows ==
    {[kind |-> "changed", left |-> OldShort, right |-> NewShort],
     [kind |-> "changed", left |-> OldLong, right |-> NewLong],
     [kind |-> "changed", left |-> OldBell, right |-> NewBell],
     [kind |-> "changed", left |-> OldShort, right |-> EmptyDiffLine],
     [kind |-> "removed", left |-> OldShort],
     [kind |-> "removed", left |-> EmptyDiffLine],
     [kind |-> "added", right |-> NewLong],
     [kind |-> "added", right |-> EmptyDiffLine],
     [kind |-> "context", left |-> OldShort, right |-> OldShort]}

\* The column widths render hands to formatCellLines are 20 or more.
CellWidths == {20, 30}
CellHighlighters == {"throws", "keyword", "reset", "bold"}

\* The component is constructed for one row; arg holds it with the cell to format.
InitCells ==
    /\ fn = "none"
    /\ \E theme \in CellThemes, row \in CellRows, side \in {"left", "right"},
          columnWidth \in CellWidths, behaviour \in CellHighlighters :
           arg = [comp |-> SplitDiffComponent(theme, <<row>>, 36, Some(<<"t", "s">>)),
                  row |-> row, side |-> side, columnWidth |-> columnWidth,
                  behaviour |-> behaviour]
    /\ res = NoResult
    /\ BuilderIdle
    /\ EditIdle

\* formatCellLines: res holds the lines of the cell and, as a record of the loop, the
\* value of segment after the loop over the spans for each plain segment.
FormatCellLines ==
    /\ fn = "none"
    /\ fn' = "formatCellLines"
    /\ res' = [lines |-> formatCellLines(arg.comp, <<>>, arg.behaviour, arg.row.kind,
                                          arg.side, cellLine(arg.row, arg.side),
                                          spansOf(arg.comp, 1, arg.side),
                                          arg.columnWidth).lines,
                segments |-> emphasizedSegments(arg.comp, arg.behaviour, arg.row.kind,
                                                arg.side, cellLine(arg.row, arg.side),
                                                spansOf(arg.comp, 1, arg.side),
                                                arg.columnWidth)]
    /\ UNCHANGED <<arg, builderVars, editVars>>

BlankCell ==
    /\ fn = "none"
    /\ fn' = "blankCell"
    /\ res' = blankCell(arg.comp, arg.row.kind, arg.side, arg.columnWidth)
    /\ UNCHANGED <<arg, builderVars, editVars>>

NextCells == FormatCellLines \/ BlankCell

SpecCells == InitCells /\ [][NextCells]_vars

\* The styling a rendered cell line shows: its marker is the first visible character,
\* its tint the row background it starts with.
ShownMarker(line) == stripAnsi(line)[1]
ShownTint(palette, line) ==
    IF IsPrefixOf(palette.addRowBgAnsi, line) THEN "add"
    ELSE IF IsPrefixOf(palette.removeRowBgAnsi, line) THEN "remove"
    ELSE "none"

StyledAs(palette, line, lineKind) ==
    /\ ShownMarker(line) = (IF lineKind = "context" THEN " " ELSE MARK)
    /\ ShownTint(palette, line) = (IF lineKind = "context" THEN "none" ELSE lineKind)

AllStyledAs(palette, lines, lineKind) ==
    \A k \in 1..Len(lines) : StyledAs(palette, lines[k], lineKind)

\* The line kind of a cell as stated: the side that carries the line of an added,
\* removed or changed row, and context for every other cell.
StatedLineKind(kind, side) ==
    CASE kind = "changed" /\ side = "left" -> "remove"
      [] kind = "changed" /\ side = "right" -> "add"
      [] kind = "removed" /\ side = "left" -> "remove"
      [] kind = "added" /\ side = "right" -> "add"
      [] OTHER -> "context"

\* C27: every line of a cell is styled by the line kind of the cell: remove for the
\* left and add for the right of a changed row, remove for the left of a removed row,
\* add for the right of an added row, context otherwise; the blank filler side of an
\* added or removed row has context styling and the side that carries the line keeps
\* its add or remove styling.
C27_CellLineKind ==
    fn = "formatCellLines" =>
        AllStyledAs(arg.comp.palette, res.lines, StatedLineKind(arg.row.kind, arg.side))

\* The part of C27 that holds: cells other than the added or removed line that is the
\* empty string.
C27_HoldsForOtherCells ==
    (fn = "formatCellLines"
        /\ ~(arg.row.kind \in {"added", "removed"}
                /\ cellLine(arg.row, arg.side) # None
                /\ cellLine(arg.row, arg.side)[1].line = <<>>)) =>
        AllStyledAs(arg.comp.palette, res.lines, StatedLineKind(arg.row.kind, arg.side))

\* The visible positions of a segment, counted from 0, that stand between the
\* sequence that switches the emphasis on and the one that switches it off.
emphasisScanStep(st, i) ==
    IF i < st.next THEN st
    ELSE IF StartsWithAt(st.text, i, st.on)
    THEN [st EXCEPT !.next = i + Len(st.on), !.active = TRUE]
    ELSE IF StartsWithAt(st.text, i, st.off)
    THEN [st EXCEPT !.next = i + Len(st.off), !.active = FALSE]
    ELSE IF sgrMatchEnd(st.text, i) > 0
    THEN [st EXCEPT !.next = sgrMatchEnd(st.text, i) + 1]
    ELSE [st EXCEPT !.positions = IF st.active THEN @ \cup {st.visible} ELSE @,
                    !.visible = @ + 1,
                    !.next = i + 1]

EmphasisedPositions(segment, on, off) ==
    iterate(emphasisScanStep,
            [text |-> segment, on |-> on, off |-> off, next |-> 1, visible |-> 0,
             active |-> FALSE, positions |-> {}],
            1, Len(segment)).positions

EmphasisedSets(segments, on, off) ==
    [k \in 1..Len(segments) |-> EmphasisedPositions(segments[k], on, off)]

\* The lengths of the plain segments, and the total length of those before segment k.
SegmentLengths(segments) == [k \in 1..Len(segments) |-> Len(stripAnsi(segments[k]))]

RECURSIVE ConsumedBefore(_, _)
ConsumedBefore(lengths, k) ==
    IF k <= 1 THEN 0 ELSE ConsumedBefore(lengths, k - 1) + lengths[k - 1]

ShiftedBack(emphasised, lengths) ==
    [k \in 1..Len(emphasised) |-> {p + ConsumedBefore(lengths, k) : p \in emphasised[k]}]

\* [max(0, start - consumed), min(length, end - consumed))
LocalRange(length, consumed, span) ==
    {p \in 0..(length - 1) :
        Max(0, span.start - consumed) <= p /\ p < Min(length, span.end - consumed)}

LocalRangesApplied(emphasised, lengths, span) ==
    \A k \in 1..Len(emphasised) :
        emphasised[k] = LocalRange(lengths[k], ConsumedBefore(lengths, k), span)

UnionIs(shifted, first, last) == UNION {shifted[k] : k \in 1..Len(shifted)} = first..last

NoPositionTwice(shifted) ==
    \A j, k \in 1..Len(shifted) : j # k => shifted[j] \cap shifted[k] = {}

\* The segments are emphasised on their local ranges, the emphasised positions,
\* shifted back, are [span.start, end), and none is emphasised twice.
RangesCover(emphasised, lengths, span, end) ==
    /\ LocalRangesApplied(emphasised, lengths, span)
    /\ UnionIs(ShiftedBack(emphasised, lengths), span.start, end - 1)
    /\ NoPositionTwice(ShiftedBack(emphasised, lengths))

\* The line kind, the row background and the emphasis background of the cell.
CellLineKind == getCellLineKind(arg.row.kind, arg.side)
CellRowBg == getRowBackground(arg.comp, CellLineKind)
CellEmphasisBg == getEmphasisBackground(arg.comp, CellLineKind)

\* formatCellLines ran on a line with one inline span.
CellHasSpan == fn = "formatCellLines" /\ Len(spansOf(arg.comp, 1, arg.side)) = 1
CellSpan == spansOf(arg.comp, 1, arg.side)[1]

C24_HoldsWithinSanitizedText ==
    CellHasSpan =>
        RangesCover(EmphasisedSets(res.segments, CellEmphasisBg, CellRowBg),
                    SegmentLengths(res.segments), CellSpan,
                    Min(CellSpan.end,
                        Len(sanitizeSingleLineText(cellLine(arg.row, arg.side)[1].line))))

SpanAcrossTwo(shifted, span) ==
    /\ Len(shifted) = 2
    /\ shifted[1] # {}
    /\ shifted[2] # {}
    /\ shifted[1] \cup shifted[2] = span.start..(span.end - 1)

DefaultBackground == <<"default">>

backgroundAfter(active, sequence, codes) ==
    IF Len(codes) = 0 \/ codes = <<<<"0">>>> \/ codes = <<<<"4", "9">>>> THEN DefaultBackground
    ELSE IF Len(codes[1]) = 2 /\ codes[1][1] = "4" THEN sequence
    ELSE active

sequenceAt(st, i, last) ==
    [st EXCEPT !.next = last + 1,
               !.active = backgroundAfter(@, SubSeq(st.text, i, last),
                                          splitCodes(SubSeq(st.text, i + 2, last - 1)))]

activeBackgroundStep(st, i) ==
    IF i < st.next THEN st
    ELSE IF sgrMatchEnd(st.text, i) > 0 THEN sequenceAt(st, i, sgrMatchEnd(st.text, i))
    ELSE [st EXCEPT !.under = Append(@, st.active), !.next = i + 1]

ActiveBackgrounds(line) ==
    iterate(activeBackgroundStep,
            [text |-> line, next |-> 1, active |-> DefaultBackground, under |-> <<>>],
            1, Len(line)).under

InSpans(spans, position) ==
    \E n \in 1..Len(spans) : spans[n].start <= position /\ position < spans[n].end

\* Every text character of a line stands under the emphasis background when its
\* offset is inside a span, and under the row background when it is not; the text
\* follows the prefix of marker, space, line number and divider.
TextUnderBackgrounds(under, length, consumed, spans, prefixWidth, rowBg, emphasisBg) ==
    \A p \in 0..(length - 1) :
        under[prefixWidth + p + 1] =
            (IF InSpans(spans, consumed + p) THEN emphasisBg ELSE rowBg)

LinesUnderBackgrounds(lines, lengths, spans, prefixWidth, rowBg, emphasisBg) ==
    \A k \in 1..Len(lines) :
        TextUnderBackgrounds(ActiveBackgrounds(lines[k]), lengths[k],
                             ConsumedBefore(lengths, k), spans, prefixWidth, rowBg, emphasisBg)

SomeUnderEmphasis(lines, lengths, spans, prefixWidth, emphasisBg) ==
    \E k \in 1..Len(lines) :
        \E p \in 0..(lengths[k] - 1) :
            /\ InSpans(spans, ConsumedBefore(lengths, k) + p)
            /\ ActiveBackgrounds(lines[k])[prefixWidth + p + 1] = emphasisBg

\* formatCellLines rendered an add or remove cell.
AddOrRemoveCell ==
    /\ fn = "formatCellLines"
    /\ cellLine(arg.row, arg.side) # None
    /\ getVisualLineKind(arg.row.kind, arg.side, cellLine(arg.row, arg.side)) # "context"

\* C28: in a rendered add or remove cell every text character inside the inline span
\* is emitted while the emphasis background is active and every text character outside
\* it while the row background is active, also when the highlighted segment has colour
\* or reset sequences between the characters of the span.
C28_SpanUnderEmphasis ==
    AddOrRemoveCell =>
        LinesUnderBackgrounds(res.lines, SegmentLengths(res.segments),
                              spansOf(arg.comp, 1, arg.side), arg.comp.lineNumberWidth + 5,
                              CellRowBg, CellEmphasisBg)

\* The parameters of a colour sequence; one that reads 0 or 49 is taken for a reset
\* by keepBackgroundAcrossResets.
ChannelsOf(sequence) == splitCodes(SubSeq(sequence, 3, Len(sequence) - 1))
HasResetChannel(sequence) ==
    \E n \in 1..Len(ChannelsOf(sequence)) : ChannelsOf(sequence)[n] \in {<<"0">>, <<"4", "9">>}

\* The part of C28 that holds: cells whose emphasis background has no colour channel
\* that reads 0 or 49, highlighted without a reset before the end of the segment.
C28_HoldsWithoutReset ==
    (AddOrRemoveCell /\ arg.behaviour # "reset" /\ ~HasResetChannel(CellEmphasisBg)) =>
        LinesUnderBackgrounds(res.lines, SegmentLengths(res.segments),
                              spansOf(arg.comp, 1, arg.side), arg.comp.lineNumberWidth + 5,
                              CellRowBg, CellEmphasisBg)

\* A cell rendered with its span under the emphasis background while the highlighter
\* coloured the segment.
C28_EmphasisShown ==
    /\ AddOrRemoveCell
    /\ arg.behaviour = "keyword"
    /\ SomeUnderEmphasis(res.lines, SegmentLengths(res.segments),
                         spansOf(arg.comp, 1, arg.side), arg.comp.lineNumberWidth + 5,
                         CellEmphasisBg)

(***************************************************************************)
(* Specification SpecRender: render on a fresh component of up to          *)
(* MaxRenderRows rows, at widths below and above the floor of two columns, *)
(* with caps below, at and above the number of rows.                       *)
(***************************************************************************)

MaxRenderRows == 3

RenderRowChoices ==
    {[kind |-> "changed", left |-> OldLong, right |-> NewLong],
     [kind |-> "added", right |-> NewShort]}

RowLists == Strs(RenderRowChoices, MaxRenderRows)
RowCaps == {1, 2}
ComponentWidths == {20, 42, 43, 50}
RenderBehaviours == {"keyword", "throws"}

InitRender ==
    /\ fn = "none"
    /\ \E rs \in RowLists, maxRows \in RowCaps, width \in ComponentWidths,
          behaviour \in RenderBehaviours :
           arg = [comp |-> SplitDiffComponent(FallbackTheme, rs, maxRows, Some(<<"t", "s">>)),
                  width |-> width, behaviour |-> behaviour]
    /\ res = NoResult
    /\ BuilderIdle
    /\ EditIdle

\* render(width) on the component as constructed: no lines are cached and the
\* highlight cache is empty.
RenderFresh ==
    /\ fn = "none"
    /\ res' = render(arg.comp, None, None, <<>>, arg.behaviour, arg.width)
    /\ fn' = "render"
    /\ UNCHANGED <<arg, builderVars, editVars>>

NextRender == RenderFresh

SpecRender == InitRender /\ [][NextRender]_vars

\* The number of lines that are header or data lines: all but the trailer.
TrailerCount(comp) == IF Len(comp.rows) > comp.maxRows THEN 1 ELSE 0

AllOfWidth(lines, count, width) ==
    \A k \in 1..count : visibleWidth(stripAnsi(lines[k])) = width

\* C25: every header line and every data line render(width) returns has visible
\* width exactly max(20, width), for every width.
C25_LinesFillRenderWidth ==
    fn = "render" =>
        AllOfWidth(res.lines, Len(res.lines) - TrailerCount(arg.comp), Max(20, arg.width))

\* The part of C25 that holds: widths that leave each of the two columns its 20
\* characters beside the divider of 3.
C25_HoldsFromTwoColumns ==
    (fn = "render" /\ arg.width >= 43) =>
        AllOfWidth(res.lines, Len(res.lines) - TrailerCount(arg.comp), Max(20, arg.width))

\* render on the component that holds the first rows only, as many as are shown.
ShownRows(comp) == Min(comp.maxRows, Len(comp.rows))
FirstRowsOnly(comp, shown) ==
    [comp EXCEPT !.rows = SubSeq(@, 1, shown), !.inlineHighlights = SubSeq(@, 1, shown)]

TrailerText(more) == <<".", ".", ".", " ">> \o numberToString(more) \o MoreRowsText

DataLinesOfFirstRows(rendered, firstOnly, trailers) ==
    /\ Len(rendered.lines) = Len(firstOnly.lines) + trailers
    /\ SubSeq(rendered.lines, 1, Len(firstOnly.lines)) = firstOnly.lines
    /\ rendered.highlightCache = firstOnly.highlightCache

TrailerReports(lines, trailers, more) ==
    trailers = 1 => stripAnsi(lines[Len(lines)]) = TrailerText(more)

\* C26: render emits the data lines of exactly the first min(maxRows, number of rows)
\* rows in order, followed by one trailer line that reports number of rows - maxRows
\* more rows if and only if there are more rows than maxRows; the rows past the cap
\* are neither formatted nor highlighted.
C26_RowCap ==
    fn = "render" =>
        /\ DataLinesOfFirstRows(
               res,
               render(FirstRowsOnly(arg.comp, ShownRows(arg.comp)), None, None, <<>>,
                      arg.behaviour, arg.width),
               IF Len(arg.comp.rows) > arg.comp.maxRows THEN 1 ELSE 0)
        /\ TrailerReports(res.lines, IF Len(arg.comp.rows) > arg.comp.maxRows THEN 1 ELSE 0,
                          Len(arg.comp.rows) - arg.comp.maxRows)

\* render capped three rows at one: a trailer reports the two rows that are not shown.
C26_Witness ==
    /\ fn = "render"
    /\ Len(arg.comp.rows) = 3
    /\ arg.comp.maxRows = 1
    /\ stripAnsi(res.lines[Len(res.lines)]) = TrailerText(2)
    /\ Len(res.highlightCache) > 0

====
